---- MODULE Spec2Model ----
(***************************************************************************)
(* Model of the ESS ingestor (src/ingestor/main.py): the MQTT callback     *)
(* on_message, the bounded queues, the batch flushers, the alarm archiver  *)
(* and the tables they write.                                              *)
(*                                                                         *)
(* Conventions                                                             *)
(*   - Python None / SQL NULL is the empty sequence <<>>, a present value  *)
(*     v is <<v>>; Python truthiness of such a value is "non-empty".       *)
(*   - A string that the code parses (a topic part, a device serial) is a  *)
(*     sequence of one-character strings, so that int() and the f-string   *)
(*     formatting are computed and not assumed.                            *)
(*   - A timestamp is a number of seconds: time.strftime has a resolution  *)
(*     of one second, so two events of the same second get equal stamps.   *)
(*   - The writes of a transaction are one step, at its commit: it commits *)
(*     all of its statements or, on an exception, rolls all of them back.  *)
(*     The archiver's SELECT is a step of its own before that one: under   *)
(*     READ COMMITTED other transactions can commit in between.            *)
(*   - nmsg, dropped, committed, fk_errors and rolled_back are history     *)
(*     variables: they record what happened and are never read by the      *)
(*     modelled code.                                                      *)
(***************************************************************************)
EXTENDS Integers, Sequences, FiniteSets, TLC

\* ------------------------------------------------------------------ bounds
\* messages delivered to on_message in one behaviour
MaxMsgs == 3
\* seconds the clock may advance
MaxTime == 1
\* sessions the MQTT client may have with the broker
MaxSessions == 2

\* ------------------------------------------------- configuration (env vars)
\* BATCH_SIZE and QUEUE_MAXSIZE are read from the environment (defaults 200
\* and 10000); the model runs the configuration BATCH_SIZE=2, QUEUE_MAXSIZE=2.
BATCH_SIZE == 2
QUEUE_MAXSIZE == 2

\* time.sleep(5) after a flusher's fatal error, in seconds
RETRY_SLEEP == 5

\* ----------------------------------------------------------------- values
None == <<>>

Some(v) == <<v>>

\* Python truthiness of an optional value
Truthy(o) == o # <<>>

\* a or b
Or(a, b) == IF Truthy(a) THEN a ELSE b

SetMax(S) == CHOOSE x \in S : \A y \in S : y <= x

DigitChars == <<"0", "1", "2", "3", "4", "5", "6", "7", "8", "9">>

DigitVal(c) == (CHOOSE i \in 1..10 : DigitChars[i] = c) - 1

\* whether int(s) succeeds on the string s (decimal digits only in the model)
IsNumeric(s) ==
  Len(s) > 0 /\ \A i \in 1..Len(s) : \E d \in 1..10 : DigitChars[d] = s[i]

RECURSIVE ParseInt(_)
\* int(s) for a string of decimal digits
ParseInt(s) ==
  IF Len(s) = 0 THEN 0
  ELSE 10 * ParseInt(SubSeq(s, 1, Len(s) - 1)) + DigitVal(s[Len(s)])

RECURSIVE DigitsOf(_)
\* str(n) for n >= 0
DigitsOf(n) ==
  IF n < 10 THEN <<DigitChars[n + 1]>>
  ELSE DigitsOf(n \div 10) \o <<DigitChars[(n % 10) + 1]>>

RECURSIVE PadZero(_, _)
\* the format spec 0<w>d: left-pad with zeros to width w, never truncate
PadZero(s, w) == IF Len(s) >= w THEN s ELSE PadZero(<<"0">> \o s, w)

\* f"SN{did:04d}"
PlaceholderSn(did) == <<"S", "N">> \o PadZero(DigitsOf(did), 4)

\* JSON values of a telemetry / history payload field
IntV(n) == [k |-> "int", v |-> n]

NumStrV(n) == [k |-> "numstr", v |-> n]

BadStrV == [k |-> "badstr", v |-> 0]

NullV == [k |-> "null", v |-> 0]

NoPayload == [x \in {} |-> NullV]

\* payload.get(key): None when the key is absent
Get(payload, key) == IF key \in DOMAIN payload THEN payload[key] ELSE NullV

\* payload.get(key, default): the default only when the key is absent
GetDefault(payload, key, default) ==
  IF key \in DOMAIN payload THEN payload[key] ELSE default

\* whether int(v) returns
IntOk(v) == v.k \in {"int", "numstr"}

FIELDS ==
  {"device_id", "soc", "soh", "pv", "load", "grid", "grid_q", "batt",
   "ac_v", "ac_f", "v_a", "v_b", "v_c", "i_a", "i_b", "i_c",
   "p_a", "p_b", "p_c", "q_a", "q_b", "q_c",
   "e_pv_today", "e_load_today", "e_charge_today", "e_discharge_today"}

to_int(v, default) ==
  IF v.k = "null" THEN default
  ELSE IF IntOk(v) THEN v.v
  ELSE default

\* a normalization whose state of health defaults to 0 like the others
normalize_soh_zero(sn, payload) ==
  [k \in FIELDS |->
     IF k = "device_id" THEN ParseInt(sn)
     ELSE to_int(Get(payload, k), 0)]

normalize(sn, payload) ==
  [k \in FIELDS |->
     IF k = "device_id" THEN ParseInt(sn)
     ELSE IF k = "soh" THEN to_int(Get(payload, k), 100)
     ELSE to_int(Get(payload, k), 0)]

\* ------------------------------------------------------------------ topics
\* msg.topic.split("/")
Topic(sn, suffix) == <<"devices", sn, suffix>>

\* msg.topic.endswith("/" + suffix)
EndsWith(topic, suffix) == Len(topic) >= 2 /\ topic[Len(topic)] = suffix

\* a parse that does not look at the first part of the topic
parse_device_id_unchecked(topic, suffix) ==
  IF Len(topic) >= 3 /\ topic[3] = suffix THEN topic[2] ELSE None

\* parse_device_id, parse_history_device_id, parse_alarm_device_id,
\* parse_rpc_ack_device_id: the same function up to the suffix
parse_device_id(topic, suffix) ==
  IF Len(topic) >= 3 /\ topic[1] = "devices" /\ topic[3] = suffix
  THEN topic[2] ELSE None

\* MQTT_TOPIC, HISTORY_TOPIC, ALARM_TOPIC, PARA_TOPIC, RPC_ACK_TOPIC: the
\* filter "$share/ess-ingestor/devices/+/<class>" split at "/"
TopicFilter(class) == <<"$share", "ess-ingestor", "devices", "+", class>>

MQTT_TOPIC == TopicFilter("realtime")

HISTORY_TOPIC == TopicFilter("history")

ALARM_TOPIC == TopicFilter("alarm")

PARA_TOPIC == TopicFilter("para")

RPC_ACK_TOPIC == TopicFilter("rpc_ack")

TOPICS == {MQTT_TOPIC, HISTORY_TOPIC, ALARM_TOPIC, PARA_TOPIC, RPC_ACK_TOPIC}

\* ------------------------------------------------------------------- state
VARIABLES
  now,                    \* wall clock and database clock, in seconds
  stop_event,             \* threading.Event shared by all workers
  exited,                 \* main() has returned and the process is gone
  pg_up,                  \* whether PostgreSQL accepts and keeps connections
  wake,                   \* when each flusher's time.sleep(5) ends
  connected,              \* whether the MQTT client has a session
  subscriptions,          \* the topic filters the session is subscribed to
  sessions,               \* history: CONNACKs with rc = 0 received so far
  q,                      \* Queue of normalized telemetry records
  history_q,              \* Queue of history-energy records
  alarm_q,                \* Queue of alarm records for alarm_flusher
  para_q,                 \* Queue of device-parameter records
  rpc_ack_q,              \* Queue of command acknowledgments
  archive_alarm_q,        \* Queue of alarm records for archive_alarm_worker
  pc,                     \* where each worker thread is in its loop
  batch,                  \* each flusher's local list `batch`
  alarm,                  \* archive_alarm_worker's local `alarm`
  row,                    \* archive_alarm_worker's local `row`
  devices,                \* table devices
  ess_realtime_data,      \* table ess_realtime_data
  history_energy,         \* table history_energy
  alarms,                 \* table alarms
  alarms_id_seq,          \* the serial behind alarms.id
  alarm_history,          \* table alarm_history, in insertion order
  device_para,            \* table device_para
  device_rpc_change_log,  \* table device_rpc_change_log
  nmsg,                   \* history: messages delivered to on_message
  dropped,                \* history: numbers of the messages on_message dropped
  committed,              \* history: per worker, the entries it committed, in order
  fk_errors,              \* history: writes that failed on a foreign key
  rolled_back,            \* history: numbers of the records of rolled back writes
  peer                    \* a second ingestor process on the same store: its
                          \* archive_alarm_q and its archiver's pc, alarm, row

queueVars == <<q, history_q, alarm_q, para_q, rpc_ack_q, archive_alarm_q>>

workerVars == <<pc, batch, alarm, row>>

tableVars ==
  <<devices, ess_realtime_data, history_energy, alarms, alarms_id_seq,
    alarm_history, device_para, device_rpc_change_log>>

historyVars == <<nmsg, dropped, committed, fk_errors, rolled_back>>

\* the stop signal, the process, and the connections to PostgreSQL and MQTT
lifeVars ==
  <<stop_event, exited, pg_up, wake, connected, subscriptions, sessions>>

vars == <<now, peer, lifeVars, queueVars, workerVars, tableVars, historyVars>>

Flushers ==
  {"flusher", "history_flusher", "alarm_flusher", "para_flusher",
   "rpc_ack_flusher"}

Workers == Flushers \cup {"archive_alarm_worker"}

\* the delivery number on_message gives the message it is handling
MsgNo == nmsg + 1

\* a queue entry: the record the code enqueues, tagged with its delivery number
Entry(rec, n) == [rec |-> rec, seq |-> n]

Range(s) == {s[i] : i \in 1..Len(s)}

\* Queue.put(item, block=False) on a queue of maxsize QUEUE_MAXSIZE:
\* raises queue.Full, leaving the queue as it is, when the queue is full
put_full(queue) == Len(queue) >= QUEUE_MAXSIZE

\* a put that makes room by evicting the oldest entry of a full queue
put_evict_oldest(queue, item) ==
  IF put_full(queue) THEN Append(Tail(queue), item) ELSE Append(queue, item)

\* a put on a queue made without maxsize
put_unbounded(queue, item) == Append(queue, item)

put(queue, item) == IF put_full(queue) THEN queue ELSE Append(queue, item)

\* ------------------------------------------------------------ normalization
HISTORY_COUNTERS ==
  {"charge_wh_total", "discharge_wh_total", "pv_wh_total", "grid_wh_total",
   "load_wh_total"}

\* whether normalize_history returns: int(payload.get(k, 0)) raises on a
\* present value that is null or not a number
normalize_history_ok(sn, payload) ==
  /\ IsNumeric(sn)
  /\ \A k \in HISTORY_COUNTERS : IntOk(GetDefault(payload, k, IntV(0)))

normalize_history(sn, payload) ==
  [device_id |-> ParseInt(sn),
   ts |-> IF "ts" \in DOMAIN payload /\ payload["ts"].k # "null"
          THEN Some(payload["ts"].v) ELSE None,
   charge_wh_total |-> GetDefault(payload, "charge_wh_total", IntV(0)).v,
   discharge_wh_total |-> GetDefault(payload, "discharge_wh_total", IntV(0)).v,
   pv_wh_total |-> GetDefault(payload, "pv_wh_total", IntV(0)).v,
   grid_wh_total |-> GetDefault(payload, "grid_wh_total", IntV(0)).v,
   load_wh_total |-> GetDefault(payload, "load_wh_total", IntV(0)).v]

\* an alarm payload is a record of optional values: payload.get(k, d)
OptGet(o, default) == IF o = None THEN default ELSE o[1]

\* the dict `alarm` that on_message builds from an alarm payload at time t
alarm_record(sn, payload, t) ==
  [device_id |-> ParseInt(sn),
   alarm_type |-> OptGet(payload.alarm_type, "unknown"),
   code |-> OptGet(payload.code, 0),
   level |-> OptGet(payload.level, "info"),
   extra |-> OptGet(payload.extra, "{}"),
   status |-> OptGet(payload.status, "active"),
   first_triggered_at |-> t,
   last_triggered_at |-> t,
   repeat_count |-> 1,
   remark |-> payload.remark,
   confirmed_at |->
     Or(payload.confirmed_at,
        IF payload.status = Some("confirmed") \/ Truthy(payload.confirmed_by)
        THEN Some(t) ELSE None),
   confirmed_by |-> payload.confirmed_by,
   cleared_at |->
     Or(payload.cleared_at,
        IF payload.status = Some("cleared") THEN Some(t) ELSE None),
   cleared_by |-> payload.cleared_by]

\* an archival decision that archives every cleared alarm, whatever its level
should_archive_any_cleared(a) == a.status = "cleared"

\* an archival decision that asks every level for a confirmation
should_archive_confirmed_only(a) == a.status = "cleared" /\ Truthy(a.confirmed_at)

\* the archival decision of on_message
should_archive(a) ==
  IF a.level = "critical"
  THEN a.status = "cleared" /\ Truthy(a.confirmed_at)
  ELSE a.status = "cleared"

\* the dict `para` that on_message builds from a parameters payload at time t
para_record(sn, payload, t) ==
  [device_id |-> ParseInt(sn),
   para |-> payload,
   updated_at |-> OptGet(payload.updated_at, t)]

valid_statuses == {"success", "failed", "error", "timeout"}

\* an acknowledgment record whose status is taken from the payload as it is
rpc_ack_record_unvalidated(sn, payload) ==
  [device_sn |-> sn,
   request_id |-> payload.response_id[1],
   status |-> OptGet(payload.status, "error")]

\* the dict `rpc_ack` that on_message builds
rpc_ack_record(sn, payload) ==
  [device_sn |-> sn,
   request_id |-> payload.response_id[1],
   status |->
     LET status == OptGet(payload.status, "error")
     IN IF status \in valid_statuses THEN status ELSE "error"]

\* ------------------------------------------------------------------ router
\* What on_message does with msg at time t before the put: the queue it
\* chooses and the record, or "none" when it returns early or an exception
\* is caught.
route(msg, t) ==
  LET none == [to |-> "none", rec |-> <<>>]
      topic == msg.topic
  IN
  IF EndsWith(topic, "realtime") THEN
    LET sn == parse_device_id(topic, "realtime") IN
    IF ~Truthy(sn) THEN none
    ELSE IF msg.payload = None THEN none
    ELSE IF ~IsNumeric(sn) THEN none
    ELSE [to |-> "q", rec |-> normalize(sn, msg.payload[1])]
  ELSE IF EndsWith(topic, "history") THEN
    LET sn == parse_device_id(topic, "history") IN
    IF ~Truthy(sn) THEN none
    ELSE IF msg.payload = None THEN none
    ELSE IF ~normalize_history_ok(sn, msg.payload[1]) THEN none
    ELSE [to |-> "history_q", rec |-> normalize_history(sn, msg.payload[1])]
  ELSE IF EndsWith(topic, "alarm") THEN
    LET sn == parse_device_id(topic, "alarm") IN
    IF ~Truthy(sn) THEN none
    ELSE IF msg.payload = None THEN none
    ELSE IF ~IsNumeric(sn) THEN none
    ELSE LET a == alarm_record(sn, msg.payload[1], t)
         IN IF should_archive(a)
            THEN [to |-> "archive_alarm_q", rec |-> a]
            ELSE [to |-> "alarm_q", rec |-> a]
  ELSE IF EndsWith(topic, "para") THEN
    LET sn == parse_device_id(topic, "para") IN
    IF ~Truthy(sn) THEN none
    ELSE IF msg.payload = None THEN none
    ELSE IF ~IsNumeric(sn) THEN none
    ELSE [to |-> "para_q", rec |-> para_record(sn, msg.payload[1], t)]
  ELSE IF EndsWith(topic, "rpc_ack") THEN
    LET sn == parse_device_id(topic, "rpc_ack") IN
    IF ~Truthy(sn) THEN none
    ELSE IF msg.payload = None THEN none
    ELSE IF ~Truthy(msg.payload[1].response_id) THEN none
    ELSE [to |-> "rpc_ack_q", rec |-> rpc_ack_record(sn, msg.payload[1])]
  ELSE none

\* the queue variable of that name
QueueOf(name) ==
  CASE name = "q" -> q
    [] name = "history_q" -> history_q
    [] name = "alarm_q" -> alarm_q
    [] name = "para_q" -> para_q
    [] name = "rpc_ack_q" -> rpc_ack_q
    [] name = "archive_alarm_q" -> archive_alarm_q

\* a handler whose put waits for room in a full queue
on_message_blocking(msg) ==
  /\ nmsg < MaxMsgs
  /\ LET r == route(msg, now)
         e == Entry(r.rec, MsgNo)
     IN /\ r.to # "none" => ~put_full(QueueOf(r.to))
        /\ q' = IF r.to = "q" THEN put(q, e) ELSE q
        /\ history_q' = IF r.to = "history_q" THEN put(history_q, e) ELSE history_q
        /\ alarm_q' = IF r.to = "alarm_q" THEN put(alarm_q, e) ELSE alarm_q
        /\ para_q' = IF r.to = "para_q" THEN put(para_q, e) ELSE para_q
        /\ rpc_ack_q' = IF r.to = "rpc_ack_q" THEN put(rpc_ack_q, e) ELSE rpc_ack_q
        /\ archive_alarm_q' =
             IF r.to = "archive_alarm_q" THEN put(archive_alarm_q, e)
             ELSE archive_alarm_q
        /\ dropped' = dropped
  /\ nmsg' = MsgNo
  /\ UNCHANGED <<now, peer, lifeVars, workerVars, tableVars, committed, fk_errors,
                 rolled_back>>

\* on_message(client, userdata, msg): route, then put without blocking; the
\* queue.Full of a full queue is caught by the handler's except clause
on_message(msg) ==
  /\ nmsg < MaxMsgs
  /\ LET r == route(msg, now)
         e == Entry(r.rec, MsgNo)
     IN /\ q' = IF r.to = "q" THEN put(q, e) ELSE q
        /\ history_q' = IF r.to = "history_q" THEN put(history_q, e) ELSE history_q
        /\ alarm_q' = IF r.to = "alarm_q" THEN put(alarm_q, e) ELSE alarm_q
        /\ para_q' = IF r.to = "para_q" THEN put(para_q, e) ELSE para_q
        /\ rpc_ack_q' = IF r.to = "rpc_ack_q" THEN put(rpc_ack_q, e) ELSE rpc_ack_q
        /\ archive_alarm_q' =
             IF r.to = "archive_alarm_q" THEN put(archive_alarm_q, e)
             ELSE archive_alarm_q
        /\ dropped' =
             IF r.to # "none" /\ put_full(QueueOf(r.to))
             THEN dropped \cup {MsgNo} ELSE dropped
  /\ nmsg' = MsgNo
  /\ UNCHANGED <<now, peer, lifeVars, workerVars, tableVars, committed, fk_errors,
                 rolled_back>>

\* the clock advances
Tick ==
  /\ now < MaxTime
  /\ now' = now + 1
  /\ UNCHANGED <<peer, lifeVars, queueVars, workerVars, tableVars, historyVars>>

\* --------------------------------------------------------------- MQTT client
\* whether the broker delivers a message published on topic to a session
\* subscribed to filter: the filter without its "$share/<group>" prefix
\* has the topic's levels, "+" standing for any one level
Matches(filter, topic) ==
  LET levels == SubSeq(filter, 3, Len(filter))
  IN /\ filter[1] = "$share"
     /\ Len(levels) = Len(topic)
     /\ \A i \in 1..Len(levels) :
          IF levels[i] = "+" THEN TRUE ELSE levels[i] = topic[i]

\* a handler that subscribes on the first connection only
on_connect_first_only(rc) ==
  /\ ~connected
  /\ rc = 0 => sessions < MaxSessions
  /\ connected' = (rc = 0)
  /\ subscriptions' = IF rc = 0 /\ sessions = 0 THEN TOPICS ELSE subscriptions
  /\ sessions' = IF rc = 0 THEN sessions + 1 ELSE sessions
  /\ UNCHANGED <<now, peer, stop_event, exited, pg_up, wake, queueVars, workerVars,
                 tableVars, historyVars>>

\* on_connect(client, userdata, flags, rc): the CONNACK of a connection or
\* reconnection attempt; with rc == 0 the five client.subscribe calls
on_connect(rc) ==
  /\ ~connected
  /\ rc = 0 => sessions < MaxSessions
  /\ connected' = (rc = 0)
  /\ subscriptions' =
       IF rc = 0
       THEN subscriptions
              \cup {MQTT_TOPIC, HISTORY_TOPIC, ALARM_TOPIC, PARA_TOPIC, RPC_ACK_TOPIC}
       ELSE subscriptions
  /\ sessions' = IF rc = 0 THEN sessions + 1 ELSE sessions
  /\ UNCHANGED <<now, peer, stop_event, exited, pg_up, wake, queueVars, workerVars,
                 tableVars, historyVars>>

\* the connection to the broker is lost: the session, which is a clean one
\* (mqtt.Client() without clean_session=False), ends with its subscriptions
connection_lost ==
  /\ connected
  /\ connected' = FALSE
  /\ subscriptions' = {}
  /\ UNCHANGED <<now, peer, stop_event, exited, pg_up, wake, sessions, queueVars,
                 workerVars, tableVars, historyVars>>

\* the network loop of client.loop_start() calls on_message for a message
\* the broker sends, which it does for a topic the session is subscribed to
deliver(msg) ==
  /\ connected
  /\ \E f \in subscriptions : Matches(f, msg.topic)
  /\ on_message(msg)

\* ------------------------------------------------------------- statements
DeviceIds(devs) == {d.id : d \in devs}

\* a registrar that registers nothing
ensure_devices_exist_skip(devs, b, t) == devs

\* a registrar whose insert replaces the row of a known id (DO UPDATE)
ensure_devices_exist_overwrite(devs, b, t) ==
  LET device_ids == {b[i].rec.device_id : i \in 1..Len(b)}
  IN {d \in devs : d.id \notin device_ids}
       \cup {[id |-> did, device_sn |-> PlaceholderSn(did), created_at |-> t] :
               did \in device_ids}

\* ensure_devices_exist(cur, batch) and ensure_devices_exist_history: for
\* every device id of the batch, INSERT INTO devices (id, device_sn,
\* created_at) VALUES (id, f"SN{id:04d}", now()) ON CONFLICT (id) DO NOTHING
ensure_devices_exist(devs, b, t) ==
  LET device_ids == {b[i].rec.device_id : i \in 1..Len(b)}
  IN devs \cup {[id |-> did, device_sn |-> PlaceholderSn(did), created_at |-> t] :
                  did \in device_ids \ DeviceIds(devs)}

\* The foreign key from a data table to devices(id), which
\* ensure_devices_exist is there to satisfy ("avoid the foreign key error"):
\* a statement for a device id with no devices row fails.
fk_devices_ok(devs, b) ==
  \A i \in 1..Len(b) : b[i].rec.device_id \in DeviceIds(devs)

\* an upsert that keeps the stored row on a conflict (DO NOTHING)
UPSERT_SQL_keep_existing(table, e, t) ==
  IF \E r \in table : r.vals.device_id = e.rec.device_id
  THEN table
  ELSE table \cup {[vals |-> e.rec, updated_at |-> t, seq |-> e.seq]}

\* one execution of UPSERT_SQL: INSERT INTO ess_realtime_data ... ON CONFLICT
\* (device_id) DO UPDATE SET updated_at=now(), <every channel>=EXCLUDED.<it>
UPSERT_SQL(table, e, t) ==
  LET new == [vals |-> e.rec, updated_at |-> t, seq |-> e.seq]
  IN IF \E r \in table : r.vals.device_id = e.rec.device_id
     THEN {IF r.vals.device_id = e.rec.device_id THEN new ELSE r : r \in table}
     ELSE table \cup {new}

\* a history upsert whose conflict target is the device alone
HISTORY_UPSERT_SQL_device_key(table, e) ==
  LET new == [vals |-> e.rec, seq |-> e.seq]
  IN IF \E r \in table : r.vals.device_id = e.rec.device_id
     THEN {IF r.vals.device_id = e.rec.device_id THEN new ELSE r : r \in table}
     ELSE table \cup {new}

\* a history upsert that adds the charge counter to the stored one on a
\* conflict instead of replacing it
HISTORY_UPSERT_SQL_accumulate(table, e) ==
  LET same(r) == r.vals.device_id = e.rec.device_id /\ r.vals.ts = e.rec.ts
      sum(r) == [e.rec EXCEPT !.charge_wh_total = r.vals.charge_wh_total + @]
  IN IF \E r \in table : same(r)
     THEN {IF same(r) THEN [vals |-> sum(r), seq |-> e.seq] ELSE r : r \in table}
     ELSE table \cup {[vals |-> e.rec, seq |-> e.seq]}

\* one execution of HISTORY_UPSERT_SQL: INSERT INTO history_energy ... ON
\* CONFLICT (device_id, ts) DO UPDATE SET <the five counters>=EXCLUDED.<it>
HISTORY_UPSERT_SQL(table, e) ==
  LET new == [vals |-> e.rec, seq |-> e.seq]
      same(r) == r.vals.device_id = e.rec.device_id /\ r.vals.ts = e.rec.ts
  IN IF \E r \in table : same(r)
     THEN {IF same(r) THEN new ELSE r : r \in table}
     ELSE table \cup {new}

RECURSIVE execute_batch_upsert(_, _, _)
\* execute_batch(cur, UPSERT_SQL, batch): the statements run one after the
\* other, in the order of the batch, in the caller's transaction
execute_batch_upsert(table, b, t) ==
  IF b = <<>> THEN table
  ELSE execute_batch_upsert(UPSERT_SQL(table, Head(b), t), Tail(b), t)

RECURSIVE execute_batch_history(_, _)
execute_batch_history(table, b) ==
  IF b = <<>> THEN table
  ELSE execute_batch_history(HISTORY_UPSERT_SQL(table, Head(b)), Tail(b))

\* the alarms row that ALARM_UPSERT_SQL inserts for the record a, with the
\* next value of the serial as its id
alarm_row(a, id) ==
  [id |-> id,
   device_id |-> a.device_id, alarm_type |-> a.alarm_type, code |-> a.code,
   level |-> a.level, extra |-> a.extra, status |-> a.status,
   first_triggered_at |-> a.first_triggered_at,
   last_triggered_at |-> a.last_triggered_at,
   repeat_count |-> a.repeat_count, remark |-> a.remark,
   confirmed_at |-> a.confirmed_at, confirmed_by |-> a.confirmed_by,
   cleared_at |-> a.cleared_at, cleared_by |-> a.cleared_by]

\* an alarm upsert that refreshes the row on a conflict without counting
ALARM_UPSERT_SQL_no_count(t, e) ==
  LET a == e.rec
      conflict(r) ==
        /\ r.device_id = a.device_id
        /\ r.alarm_type = a.alarm_type
        /\ r.code = a.code
        /\ r.status = a.status
  IN [id_seq |-> t.id_seq + 1,
      rows |->
        IF \E r \in t.rows : conflict(r)
        THEN {IF conflict(r)
              THEN [r EXCEPT !.last_triggered_at = a.last_triggered_at,
                             !.level = a.level,
                             !.extra = a.extra,
                             !.remark = a.remark]
              ELSE r : r \in t.rows}
        ELSE t.rows \cup {alarm_row(a, t.id_seq + 1)}]

\* one execution of ALARM_UPSERT_SQL on the table t = [rows, id_seq]:
\* INSERT INTO alarms ... ON CONFLICT (device_id, alarm_type, code, status)
\* DO UPDATE SET last_triggered_at, repeat_count = alarms.repeat_count + 1,
\* level, extra, remark. The serial advances for every proposed row.
ALARM_UPSERT_SQL(t, e) ==
  LET a == e.rec
      conflict(r) ==
        /\ r.device_id = a.device_id
        /\ r.alarm_type = a.alarm_type
        /\ r.code = a.code
        /\ r.status = a.status
  IN [id_seq |-> t.id_seq + 1,
      rows |->
        IF \E r \in t.rows : conflict(r)
        THEN {IF conflict(r)
              THEN [r EXCEPT !.last_triggered_at = a.last_triggered_at,
                             !.repeat_count = @ + 1,
                             !.level = a.level,
                             !.extra = a.extra,
                             !.remark = a.remark]
              ELSE r : r \in t.rows}
        ELSE t.rows \cup {alarm_row(a, t.id_seq + 1)}]

RECURSIVE execute_batch_alarm(_, _)
execute_batch_alarm(t, b) ==
  IF b = <<>> THEN t
  ELSE execute_batch_alarm(ALARM_UPSERT_SQL(t, Head(b)), Tail(b))

\* a SELECT without the status!='cleared' condition
archive_select_any_status(rows, a) ==
  LET match ==
        {r \in rows : /\ r.device_id = a.device_id
                      /\ r.alarm_type = a.alarm_type
                      /\ r.code = a.code}
  IN {r \in match : \A o \in match : o.last_triggered_at <= r.last_triggered_at}

\* the rows the archiver's SELECT may return: SELECT * FROM alarms WHERE
\* device_id=%s AND alarm_type=%s AND code=%s AND status!='cleared' ORDER BY
\* last_triggered_at DESC LIMIT 1 (any of the most recent when several tie)
archive_select(rows, a) ==
  LET match ==
        {r \in rows : /\ r.device_id = a.device_id
                      /\ r.alarm_type = a.alarm_type
                      /\ r.code = a.code
                      /\ r.status # "cleared"}
  IN {r \in match : \A o \in match : o.last_triggered_at <= r.last_triggered_at}

\* duration = (cleared_at - first_triggered_at) if cleared_at and
\* first_triggered_at else None
archive_duration(cleared_at, first_triggered_at) ==
  IF Truthy(cleared_at) THEN Some(cleared_at[1] - first_triggered_at) ELSE None

\* the alarm_history row the archiver inserts for the live row r and the
\* alarm record a of entry e, at time t
history_row(r, e, t) ==
  [device_id |-> r.device_id, alarm_type |-> r.alarm_type, code |-> r.code,
   level |-> r.level, extra |-> r.extra, status |-> "cleared",
   first_triggered_at |-> r.first_triggered_at,
   last_triggered_at |-> r.last_triggered_at,
   repeat_count |-> r.repeat_count, remark |-> r.remark,
   confirmed_at |-> r.confirmed_at, confirmed_by |-> r.confirmed_by,
   cleared_at |-> e.rec.cleared_at, cleared_by |-> e.rec.cleared_by,
   archived_at |-> t,
   duration |-> archive_duration(e.rec.cleared_at, r.first_triggered_at),
   live_id |-> r.id, seq |-> e.seq]

\* one execution of PARA_UPSERT_SQL: INSERT INTO device_para (device_id,
\* para, updated_at) ... ON CONFLICT (device_id) DO UPDATE SET para,
\* updated_at = EXCLUDED.<it>
PARA_UPSERT_SQL(table, e) ==
  LET new == [device_id |-> e.rec.device_id, para |-> e.rec.para,
              updated_at |-> e.rec.updated_at, seq |-> e.seq]
  IN IF \E r \in table : r.device_id = e.rec.device_id
     THEN {IF r.device_id = e.rec.device_id THEN new ELSE r : r \in table}
     ELSE table \cup {new}

RECURSIVE execute_batch_para(_, _)
execute_batch_para(table, b) ==
  IF b = <<>> THEN table
  ELSE execute_batch_para(PARA_UPSERT_SQL(table, Head(b)), Tail(b))

\* an acknowledgment update without the status='pending' condition
RPC_ACK_UPDATE_SQL_any_status(table, devs, e, t) ==
  LET ids == {d.id : d \in {x \in devs : x.device_sn = e.rec.device_sn}}
      hit(r) == r.request_id = e.rec.request_id /\ r.device_id \in ids
  IN {IF hit(r)
      THEN [r EXCEPT !.status = e.rec.status, !.confirmed_at = Some(t)]
      ELSE r : r \in table}

\* an acknowledgment update without the device condition
RPC_ACK_UPDATE_SQL_any_device(table, devs, e, t) ==
  LET hit(r) == r.request_id = e.rec.request_id /\ r.status = "pending"
  IN {IF hit(r)
      THEN [r EXCEPT !.status = e.rec.status, !.confirmed_at = Some(t)]
      ELSE r : r \in table}

\* one execution of RPC_ACK_UPDATE_SQL at time t: UPDATE device_rpc_change_log
\* SET status, confirmed_at=now() WHERE request_id=%(request_id)s AND
\* device_id=(SELECT id FROM devices WHERE device_sn=%(device_sn)s) AND
\* status='pending'
RPC_ACK_UPDATE_SQL(table, devs, e, t) ==
  LET ids == {d.id : d \in {x \in devs : x.device_sn = e.rec.device_sn}}
      hit(r) ==
        /\ r.request_id = e.rec.request_id
        /\ r.device_id \in ids
        /\ r.status = "pending"
  IN {IF hit(r)
      THEN [r EXCEPT !.status = e.rec.status, !.confirmed_at = Some(t)]
      ELSE r : r \in table}

RECURSIVE execute_batch_rpc_ack(_, _, _, _)
execute_batch_rpc_ack(table, devs, b, t) ==
  IF b = <<>> THEN table
  ELSE execute_batch_rpc_ack(RPC_ACK_UPDATE_SQL(table, devs, Head(b), t), devs,
                             Tail(b), t)

\* ----------------------------------------------------------------- workers
\* a flusher is back at `while not stop_event.is_set(): batch = []` after its
\* write (the steps in between are local to the worker)
loop_top(w) ==
  /\ pc' = [pc EXCEPT ![w] = IF stop_event THEN "closed" ELSE "collect"]
  /\ batch' = [batch EXCEPT ![w] = IF stop_event THEN @ ELSE <<>>]

\* a collection loop after which the write is done whatever was collected
collect_end_always_writes(w) ==
  /\ pc[w] = "collect"
  /\ pc' = [pc EXCEPT ![w] = "write"]

\* the collection loop ends, the batch being full or the deadline passed:
\* `if batch:` goes on to the write; with an empty batch the worker is back
\* at `while not stop_event.is_set()` (its steps in between are local)
collect_end(w) ==
  /\ pc[w] = "collect"
  /\ pc' = [pc EXCEPT ![w] = IF batch[w] # <<>> THEN "write"
                             ELSE IF stop_event THEN "closed"
                             ELSE "collect"]

\* conn.commit() by worker w of the records b
Commit(w, b) ==
  /\ committed' = [committed EXCEPT ![w] = @ \o b]
  /\ fk_errors' = fk_errors
  /\ rolled_back' = rolled_back

\* `except Exception: log(...); conn.rollback()` by worker w
Rollback(w, b, why) ==
  /\ fk_errors' = IF why = "foreign_key" THEN fk_errors + 1 ELSE fk_errors
  /\ rolled_back' = rolled_back \cup {b[i].seq : i \in 1..Len(b)}
  /\ committed' = committed

\* a collection that takes the newest record of the queue
flusher_get_lifo ==
  /\ pc["flusher"] = "collect"
  /\ Len(batch["flusher"]) < BATCH_SIZE
  /\ q # <<>>
  /\ batch' = [batch EXCEPT !["flusher"] = Append(@, q[Len(q)])]
  /\ q' = SubSeq(q, 1, Len(q) - 1)
  /\ UNCHANGED <<now, peer, lifeVars, history_q, alarm_q, para_q, rpc_ack_q,
                 archive_alarm_q,
                 pc, alarm, row, tableVars, historyVars>>

\* flusher(): batch.append(q.get(timeout=0.05))
flusher_get ==
  /\ pc["flusher"] = "collect"
  /\ Len(batch["flusher"]) < BATCH_SIZE
  /\ q # <<>>
  /\ batch' = [batch EXCEPT !["flusher"] = Append(@, Head(q))]
  /\ q' = Tail(q)
  /\ UNCHANGED <<now, peer, lifeVars, history_q, alarm_q, para_q, rpc_ack_q,
                 archive_alarm_q,
                 pc, alarm, row, tableVars, historyVars>>

\* a collection that has no deadline and ends only with a full batch
flusher_collect_end_when_full ==
  /\ Len(batch["flusher"]) = BATCH_SIZE
  /\ collect_end("flusher")
  /\ UNCHANGED <<now, peer, lifeVars, queueVars, batch, alarm, row, tableVars,
                 historyVars>>

flusher_collect_end ==
  /\ collect_end("flusher")
  /\ UNCHANGED <<now, peer, lifeVars, queueVars, batch, alarm, row, tableVars,
                 historyVars>>

\* flusher(): ensure_devices_exist, execute_batch(UPSERT_SQL), conn.commit()
flusher_write ==
  /\ pc["flusher"] = "write"
  /\ pg_up
  /\ LET b == batch["flusher"]
         devs == ensure_devices_exist(devices, b, now)
     IN IF fk_devices_ok(devs, b)
        THEN /\ devices' = devs
             /\ ess_realtime_data' = execute_batch_upsert(ess_realtime_data, b, now)
             /\ Commit("flusher", b)
        ELSE /\ UNCHANGED <<devices, ess_realtime_data>>
             /\ Rollback("flusher", b, "foreign_key")
  /\ loop_top("flusher")
  /\ UNCHANGED <<now, peer, lifeVars, queueVars, alarm, row, history_energy,
                 alarms, alarms_id_seq, alarm_history, device_para,
                 device_rpc_change_log, nmsg, dropped>>

\* a failed write whose device rows survive the rollback
flusher_db_error_keeps_devices ==
  /\ pc["flusher"] = "write"
  /\ devices' = ensure_devices_exist(devices, batch["flusher"], now)
  /\ Rollback("flusher", batch["flusher"], "db_error")
  /\ loop_top("flusher")
  /\ UNCHANGED <<now, peer, lifeVars, queueVars, alarm, row, ess_realtime_data,
                 history_energy, alarms, alarms_id_seq, alarm_history,
                 device_para, device_rpc_change_log, nmsg, dropped>>

\* flusher(): a statement or the commit raises (the storage is unreachable,
\* a statement times out): the batch is rolled back and not put back
flusher_db_error ==
  /\ pc["flusher"] = "write"
  /\ Rollback("flusher", batch["flusher"], "db_error")
  /\ loop_top("flusher")
  /\ UNCHANGED <<now, peer, lifeVars, queueVars, alarm, row, tableVars,
                 nmsg, dropped>>

\* flusher(): conn = psycopg2.connect(PG_DSN) returns; the inner `while not
\* stop_event.is_set()` is entered, or left at once through conn.close()
flusher_connect ==
  /\ pc["flusher"] = "connect"
  /\ pg_up
  /\ loop_top("flusher")
  /\ UNCHANGED <<now, peer, lifeVars, queueVars, alarm, row, tableVars, historyVars>>

\* flusher(): psycopg2.connect raises; `except Exception: log("fatal error,
\* will retry in 5s"); time.sleep(5)`. No failure is taken after MaxTime, so
\* that every sleep ends within the clock's range.
flusher_connect_error ==
  /\ pc["flusher"] = "connect"
  /\ ~pg_up
  /\ now <= MaxTime
  /\ pc' = [pc EXCEPT !["flusher"] = "sleep"]
  /\ wake' = [wake EXCEPT !["flusher"] = now + RETRY_SLEEP]
  /\ UNCHANGED <<now, peer, stop_event, exited, pg_up, connected, subscriptions,
                 sessions, queueVars, batch, alarm, row, tableVars, historyVars>>

\* flusher(): the connection is lost during the write: a statement or
\* the commit raises, `log("DB error")`, and conn.rollback() raises too, on
\* the dead connection; `finally: conn.close()`, then the outer `except
\* Exception: log("fatal error, will retry in 5s"); time.sleep(5)`. Nothing
\* of the batch is committed, and the batch is not read again.
flusher_conn_lost ==
  /\ pc["flusher"] = "write"
  /\ ~pg_up
  /\ now <= MaxTime
  /\ Rollback("flusher", batch["flusher"], "db_error")
  /\ pc' = [pc EXCEPT !["flusher"] = "sleep"]
  /\ batch' = [batch EXCEPT !["flusher"] = <<>>]
  /\ wake' = [wake EXCEPT !["flusher"] = now + RETRY_SLEEP]
  /\ UNCHANGED <<now, peer, stop_event, exited, pg_up, connected, subscriptions,
                 sessions, queueVars, alarm, row, tableVars, nmsg, dropped>>

\* a backoff that does not wait
flusher_backoff_end_no_wait ==
  /\ pc["flusher"] = "sleep"
  /\ pc' = [pc EXCEPT !["flusher"] = IF stop_event THEN "closed" ELSE "connect"]
  /\ UNCHANGED <<now, peer, lifeVars, queueVars, batch, alarm, row, tableVars,
                 historyVars>>

\* flusher(): time.sleep(5) returns; the outer `while not
\* stop_event.is_set()` goes on to psycopg2.connect or ends the thread
flusher_backoff_end ==
  /\ pc["flusher"] = "sleep"
  /\ now >= wake["flusher"]
  /\ pc' = [pc EXCEPT !["flusher"] = IF stop_event THEN "closed" ELSE "connect"]
  /\ UNCHANGED <<now, peer, lifeVars, queueVars, batch, alarm, row, tableVars,
                 historyVars>>

\* PostgreSQL becomes unreachable: it accepts no connection and the open
\* ones are dead
pg_fail ==
  /\ pg_up
  /\ pg_up' = FALSE
  /\ UNCHANGED <<now, peer, stop_event, exited, wake, connected, subscriptions,
                 sessions, queueVars, workerVars, tableVars, historyVars>>

\* PostgreSQL is reachable again
pg_recover ==
  /\ ~pg_up
  /\ pg_up' = TRUE
  /\ UNCHANGED <<now, peer, stop_event, exited, wake, connected, subscriptions,
                 sessions, queueVars, workerVars, tableVars, historyVars>>

\* the clock advances, for as long as a backoff started by MaxTime may last
TickBackoff ==
  /\ now < MaxTime + RETRY_SLEEP
  /\ now' = now + 1
  /\ UNCHANGED <<peer, lifeVars, queueVars, workerVars, tableVars, historyVars>>

\* history_flusher(): batch.append(history_q.get(timeout=0.05))
history_flusher_get ==
  /\ pc["history_flusher"] = "collect"
  /\ Len(batch["history_flusher"]) < BATCH_SIZE
  /\ history_q # <<>>
  /\ batch' = [batch EXCEPT !["history_flusher"] = Append(@, Head(history_q))]
  /\ history_q' = Tail(history_q)
  /\ UNCHANGED <<now, peer, lifeVars, q, alarm_q, para_q, rpc_ack_q, archive_alarm_q,
                 pc, alarm, row, tableVars, historyVars>>

history_flusher_collect_end ==
  /\ collect_end("history_flusher")
  /\ UNCHANGED <<now, peer, lifeVars, queueVars, batch, alarm, row, tableVars,
                 historyVars>>

\* history_energy's key (device_id, ts) is its primary key: a row with a NULL
\* ts violates it. The schema file is not part of the sources; the ON
\* CONFLICT (device_id, ts) target needs that unique key to exist.
history_key_ok(b) == \A i \in 1..Len(b) : b[i].rec.ts # None

\* history_flusher(): ensure_devices_exist_history,
\* execute_batch(HISTORY_UPSERT_SQL), conn.commit()
history_flusher_write ==
  /\ pc["history_flusher"] = "write"
  /\ LET b == batch["history_flusher"]
         devs == ensure_devices_exist(devices, b, now)
     IN IF ~fk_devices_ok(devs, b)
        THEN /\ UNCHANGED <<devices, history_energy>>
             /\ Rollback("history_flusher", b, "foreign_key")
        ELSE IF ~history_key_ok(b)
        THEN /\ UNCHANGED <<devices, history_energy>>
             /\ Rollback("history_flusher", b, "not_null")
        ELSE /\ devices' = devs
             /\ history_energy' = execute_batch_history(history_energy, b)
             /\ Commit("history_flusher", b)
  /\ loop_top("history_flusher")
  /\ UNCHANGED <<now, peer, lifeVars, queueVars, alarm, row, ess_realtime_data,
                 alarms, alarms_id_seq, alarm_history, device_para,
                 device_rpc_change_log, nmsg, dropped>>

history_flusher_db_error ==
  /\ pc["history_flusher"] = "write"
  /\ Rollback("history_flusher", batch["history_flusher"], "db_error")
  /\ loop_top("history_flusher")
  /\ UNCHANGED <<now, peer, lifeVars, queueVars, alarm, row, tableVars,
                 nmsg, dropped>>

\* alarm_flusher(): batch.append(alarm_q.get(timeout=0.05))
alarm_flusher_get ==
  /\ pc["alarm_flusher"] = "collect"
  /\ Len(batch["alarm_flusher"]) < BATCH_SIZE
  /\ alarm_q # <<>>
  /\ batch' = [batch EXCEPT !["alarm_flusher"] = Append(@, Head(alarm_q))]
  /\ alarm_q' = Tail(alarm_q)
  /\ UNCHANGED <<now, peer, lifeVars, q, history_q, para_q, rpc_ack_q, archive_alarm_q,
                 pc, alarm, row, tableVars, historyVars>>

alarm_flusher_collect_end ==
  /\ collect_end("alarm_flusher")
  /\ UNCHANGED <<now, peer, lifeVars, queueVars, batch, alarm, row, tableVars,
                 historyVars>>

\* alarm_flusher(): execute_batch(ALARM_UPSERT_SQL), conn.commit()
alarm_flusher_write ==
  /\ pc["alarm_flusher"] = "write"
  /\ LET b == batch["alarm_flusher"]
         t == execute_batch_alarm([rows |-> alarms, id_seq |-> alarms_id_seq], b)
     IN /\ alarms' = t.rows
        /\ alarms_id_seq' = t.id_seq
        /\ Commit("alarm_flusher", b)
  /\ loop_top("alarm_flusher")
  /\ UNCHANGED <<now, peer, lifeVars, queueVars, alarm, row, devices,
                 ess_realtime_data, history_energy, alarm_history, device_para,
                 device_rpc_change_log, nmsg, dropped>>

alarm_flusher_db_error ==
  /\ pc["alarm_flusher"] = "write"
  /\ Rollback("alarm_flusher", batch["alarm_flusher"], "db_error")
  /\ loop_top("alarm_flusher")
  /\ UNCHANGED <<now, peer, lifeVars, queueVars, alarm, row, tableVars,
                 nmsg, dropped>>

\* archive_alarm_worker(): alarm = archive_alarm_q.get(timeout=0.1)
archive_alarm_worker_get ==
  /\ pc["archive_alarm_worker"] = "get"
  /\ ~stop_event
  /\ archive_alarm_q # <<>>
  /\ alarm' = Some(Head(archive_alarm_q))
  /\ archive_alarm_q' = Tail(archive_alarm_q)
  /\ pc' = [pc EXCEPT !["archive_alarm_worker"] = "select"]
  /\ UNCHANGED <<now, peer, lifeVars, q, history_q, alarm_q, para_q, rpc_ack_q, batch,
                 row,
                 tableVars, historyVars>>

\* archive_alarm_worker(): the SELECT and row = cur.fetchone(); without a
\* row the worker goes back to the queue
archive_alarm_worker_select ==
  /\ pc["archive_alarm_worker"] = "select"
  /\ LET found == archive_select(alarms, alarm[1].rec)
     IN IF found = {}
        THEN /\ row' = None
             /\ pc' = [pc EXCEPT !["archive_alarm_worker"] = "get"]
        ELSE /\ \E r \in found : row' = Some(r)
             /\ pc' = [pc EXCEPT !["archive_alarm_worker"] = "archive"]
  /\ UNCHANGED <<now, peer, lifeVars, queueVars, batch, alarm, tableVars, historyVars>>

\* an archival whose INSERT is committed without the DELETE
archive_alarm_worker_archive_no_delete ==
  /\ pc["archive_alarm_worker"] = "archive"
  /\ alarm_history' = Append(alarm_history, history_row(row[1], alarm[1], now))
  /\ Commit("archive_alarm_worker", alarm)
  /\ pc' = [pc EXCEPT !["archive_alarm_worker"] = "get"]
  /\ UNCHANGED <<now, peer, lifeVars, queueVars, batch, alarm, row, devices,
                 ess_realtime_data, history_energy, alarms, alarms_id_seq,
                 device_para, device_rpc_change_log, nmsg, dropped>>

\* archive_alarm_worker(): INSERT INTO alarm_history, DELETE FROM alarms
\* WHERE id=row["id"], conn.commit()
archive_alarm_worker_archive ==
  /\ pc["archive_alarm_worker"] = "archive"
  /\ alarm_history' = Append(alarm_history, history_row(row[1], alarm[1], now))
  /\ alarms' = {r \in alarms : r.id # row[1].id}
  /\ Commit("archive_alarm_worker", alarm)
  /\ pc' = [pc EXCEPT !["archive_alarm_worker"] = "get"]
  /\ UNCHANGED <<now, peer, lifeVars, queueVars, batch, alarm, row, devices,
                 ess_realtime_data, history_energy, alarms_id_seq, device_para,
                 device_rpc_change_log, nmsg, dropped>>

\* archive_alarm_worker(): a statement or the commit raises: `except
\* Exception: log(...); conn.rollback()`, and the loop goes on
archive_alarm_worker_db_error ==
  /\ pc["archive_alarm_worker"] \in {"select", "archive"}
  /\ Rollback("archive_alarm_worker", alarm, "db_error")
  /\ pc' = [pc EXCEPT !["archive_alarm_worker"] = "get"]
  /\ UNCHANGED <<now, peer, lifeVars, queueVars, batch, alarm, row, tableVars,
                 nmsg, dropped>>

\* archive_alarm_worker(): `while not stop_event.is_set()` ends the loop;
\* conn.close() and the thread ends
archive_alarm_worker_stop ==
  /\ pc["archive_alarm_worker"] = "get"
  /\ stop_event
  /\ pc' = [pc EXCEPT !["archive_alarm_worker"] = "closed"]
  /\ UNCHANGED <<now, peer, lifeVars, queueVars, batch, alarm, row, tableVars,
                 historyVars>>

\* archive_alarm_worker(): the connection is lost during a statement: the
\* statement raises, `log("[alarm archive] error")`, and conn.rollback()
\* raises too, which leaves the loop for the outer `except Exception:
\* log("fatal error")`; conn.close() and the thread ends, there being no
\* loop around the connect
archive_alarm_worker_fatal ==
  /\ pc["archive_alarm_worker"] \in {"select", "archive"}
  /\ Rollback("archive_alarm_worker", alarm, "db_error")
  /\ pc' = [pc EXCEPT !["archive_alarm_worker"] = "closed"]
  /\ UNCHANGED <<now, peer, lifeVars, queueVars, batch, alarm, row, tableVars,
                 nmsg, dropped>>

\* the second process's on_message for msg, which the broker hands to one
\* process of the shared subscription: an archivable alarm goes on that
\* process's own archive_alarm_q (its other queues are not modelled)
peer_on_message(msg) ==
  /\ nmsg < MaxMsgs
  /\ LET r == route(msg, now)
     IN /\ r.to = "archive_alarm_q"
        /\ peer' = [peer EXCEPT !.archive_alarm_q = put(@, Entry(r.rec, MsgNo))]
        /\ dropped' = IF put_full(peer.archive_alarm_q)
                      THEN dropped \cup {MsgNo} ELSE dropped
  /\ nmsg' = MsgNo
  /\ UNCHANGED <<now, lifeVars, queueVars, workerVars, tableVars, committed,
                 fk_errors, rolled_back>>

\* the second process's archive_alarm_worker():
\* alarm = archive_alarm_q.get(timeout=0.1)
peer_archive_alarm_worker_get ==
  /\ peer.pc = "get"
  /\ peer.archive_alarm_q # <<>>
  /\ peer' = [peer EXCEPT !.alarm = Some(Head(peer.archive_alarm_q)),
                          !.archive_alarm_q = Tail(@),
                          !.pc = "select"]
  /\ UNCHANGED <<now, lifeVars, queueVars, workerVars, tableVars, historyVars>>

\* the second process's SELECT, on its own connection: it reads the rows
\* that are committed (READ COMMITTED, and no FOR UPDATE)
peer_archive_alarm_worker_select ==
  /\ peer.pc = "select"
  /\ LET found == archive_select(alarms, peer.alarm[1].rec)
     IN IF found = {}
        THEN peer' = [peer EXCEPT !.row = None, !.pc = "get"]
        ELSE \E r \in found : peer' = [peer EXCEPT !.row = Some(r),
                                                   !.pc = "archive"]
  /\ UNCHANGED <<now, lifeVars, queueVars, workerVars, tableVars, historyVars>>

\* the second process's INSERT INTO alarm_history of the row it selected,
\* DELETE FROM alarms WHERE id=row["id"] and conn.commit(): the DELETE of a
\* row that another transaction has deleted meanwhile deletes nothing and
\* raises nothing
peer_archive_alarm_worker_archive ==
  /\ peer.pc = "archive"
  /\ alarm_history' =
       Append(alarm_history, history_row(peer.row[1], peer.alarm[1], now))
  /\ alarms' = {r \in alarms : r.id # peer.row[1].id}
  /\ peer' = [peer EXCEPT !.pc = "get"]
  /\ UNCHANGED <<now, lifeVars, queueVars, workerVars, devices,
                 ess_realtime_data, history_energy, alarms_id_seq, device_para,
                 device_rpc_change_log, historyVars>>

\* main(): shutdown(sig, frm), the handler of SIGINT and SIGTERM:
\* stop_event.set(); client.loop_stop(); client.disconnect()
shutdown ==
  /\ ~exited
  /\ stop_event' = TRUE
  /\ connected' = FALSE
  /\ subscriptions' = {}
  /\ UNCHANGED <<now, peer, exited, pg_up, wake, sessions, queueVars, workerVars,
                 tableVars, historyVars>>

\* main(): one iteration of `while not stop_event.is_set()`: if one of t,
\* ht, at, pt, rt is not alive, stop_event.set(); time.sleep(0.5)
main_supervise ==
  /\ ~exited
  /\ ~stop_event
  /\ stop_event' = (\E w \in Flushers : pc[w] = "closed")
  /\ UNCHANGED <<now, peer, exited, pg_up, wake, connected, subscriptions, sessions,
                 queueVars, workerVars, tableVars, historyVars>>

\* main(): the loop ends on the stop signal, `finally: stop_event.set()`,
\* and main returns. No thread is joined and all six are daemon threads:
\* the interpreter exits and the threads still running end where they are.
main_exit ==
  /\ ~exited
  /\ stop_event
  /\ exited' = TRUE
  /\ connected' = FALSE
  /\ subscriptions' = {}
  /\ pc' = [w \in Workers |-> IF pc[w] = "closed" THEN "closed" ELSE "killed"]
  /\ UNCHANGED <<now, peer, stop_event, pg_up, wake, sessions, queueVars, batch,
                 alarm, row, tableVars, historyVars>>

\* para_flusher(): batch.append(para_q.get(timeout=0.05))
para_flusher_get ==
  /\ pc["para_flusher"] = "collect"
  /\ Len(batch["para_flusher"]) < BATCH_SIZE
  /\ para_q # <<>>
  /\ batch' = [batch EXCEPT !["para_flusher"] = Append(@, Head(para_q))]
  /\ para_q' = Tail(para_q)
  /\ UNCHANGED <<now, peer, lifeVars, q, history_q, alarm_q, rpc_ack_q, archive_alarm_q,
                 pc, alarm, row, tableVars, historyVars>>

para_flusher_collect_end ==
  /\ collect_end("para_flusher")
  /\ UNCHANGED <<now, peer, lifeVars, queueVars, batch, alarm, row, tableVars,
                 historyVars>>

\* para_flusher(): execute_batch(PARA_UPSERT_SQL), conn.commit()
para_flusher_write ==
  /\ pc["para_flusher"] = "write"
  /\ device_para' = execute_batch_para(device_para, batch["para_flusher"])
  /\ Commit("para_flusher", batch["para_flusher"])
  /\ loop_top("para_flusher")
  /\ UNCHANGED <<now, peer, lifeVars, queueVars, alarm, row, devices,
                 ess_realtime_data, history_energy, alarms, alarms_id_seq,
                 alarm_history, device_rpc_change_log, nmsg, dropped>>

para_flusher_db_error ==
  /\ pc["para_flusher"] = "write"
  /\ Rollback("para_flusher", batch["para_flusher"], "db_error")
  /\ loop_top("para_flusher")
  /\ UNCHANGED <<now, peer, lifeVars, queueVars, alarm, row, tableVars,
                 nmsg, dropped>>

\* rpc_ack_flusher(): batch.append(rpc_ack_q.get(timeout=0.05))
rpc_ack_flusher_get ==
  /\ pc["rpc_ack_flusher"] = "collect"
  /\ Len(batch["rpc_ack_flusher"]) < BATCH_SIZE
  /\ rpc_ack_q # <<>>
  /\ batch' = [batch EXCEPT !["rpc_ack_flusher"] = Append(@, Head(rpc_ack_q))]
  /\ rpc_ack_q' = Tail(rpc_ack_q)
  /\ UNCHANGED <<now, peer, lifeVars, q, history_q, alarm_q, para_q, archive_alarm_q,
                 pc, alarm, row, tableVars, historyVars>>

rpc_ack_flusher_collect_end ==
  /\ collect_end("rpc_ack_flusher")
  /\ UNCHANGED <<now, peer, lifeVars, queueVars, batch, alarm, row, tableVars,
                 historyVars>>

\* rpc_ack_flusher(): execute_batch(RPC_ACK_UPDATE_SQL), conn.commit()
rpc_ack_flusher_write ==
  /\ pc["rpc_ack_flusher"] = "write"
  /\ device_rpc_change_log' =
       execute_batch_rpc_ack(device_rpc_change_log, devices,
                             batch["rpc_ack_flusher"], now)
  /\ Commit("rpc_ack_flusher", batch["rpc_ack_flusher"])
  /\ loop_top("rpc_ack_flusher")
  /\ UNCHANGED <<now, peer, lifeVars, queueVars, alarm, row, devices,
                 ess_realtime_data, history_energy, alarms, alarms_id_seq,
                 alarm_history, device_para, nmsg, dropped>>

rpc_ack_flusher_db_error ==
  /\ pc["rpc_ack_flusher"] = "write"
  /\ Rollback("rpc_ack_flusher", batch["rpc_ack_flusher"], "db_error")
  /\ loop_top("rpc_ack_flusher")
  /\ UNCHANGED <<now, peer, lifeVars, queueVars, alarm, row, tableVars,
                 nmsg, dropped>>

\* ----------------------------------------------------------- initial state
\* the state after main() has started the threads, before any message, the
\* workers being at pc0 and the MQTT client connected and subscribed or not
\* yet connected: empty queues, no batch, the tables as given
InitAt(devs, rpc_log, pc0, connected0) ==
  /\ now = 0
  /\ stop_event = FALSE
  /\ exited = FALSE
  /\ pg_up = TRUE
  /\ wake = [w \in Flushers |-> 0]
  /\ connected = connected0
  /\ subscriptions = IF connected0 THEN TOPICS ELSE {}
  /\ sessions = IF connected0 THEN 1 ELSE 0
  /\ q = <<>>
  /\ history_q = <<>>
  /\ alarm_q = <<>>
  /\ para_q = <<>>
  /\ rpc_ack_q = <<>>
  /\ archive_alarm_q = <<>>
  /\ pc = pc0
  /\ batch = [w \in Flushers |-> <<>>]
  /\ alarm = None
  /\ row = None
  /\ devices = devs
  /\ ess_realtime_data = {}
  /\ history_energy = {}
  /\ alarms = {}
  /\ alarms_id_seq = 0
  /\ alarm_history = <<>>
  /\ device_para = {}
  /\ device_rpc_change_log = rpc_log
  /\ nmsg = 0
  /\ dropped = {}
  /\ committed = [w \in Workers |-> <<>>]
  /\ fk_errors = 0
  /\ rolled_back = {}
  /\ peer = [archive_alarm_q |-> <<>>, pc |-> "get", alarm |-> None, row |-> None]

\* every flusher connected and collecting its first batch, the archiver
\* waiting on its queue
Running == [w \in Workers |-> IF w \in Flushers THEN "collect" ELSE "get"]

InitWith(devs, rpc_log) == InitAt(devs, rpc_log, Running, TRUE)

\* a device registered through the API before the run, with its own serial
RegisteredDevice(id, sn) == [id |-> id, device_sn |-> sn, created_at |-> 0]

\* ---------------------------------------------------- telemetry pipeline
\* the telemetry messages of the model: two devices (7 is unknown to the
\* store, 12 is registered), payloads with present, missing, null,
\* non-numeric and extra fields, an undecodable body, a non-numeric id
RealtimeMsgs ==
  {[topic |-> Topic(<<"7">>, "realtime"),
    payload |-> Some([soc |-> IntV(55), pv |-> IntV(1200), load |-> IntV(900)])],
   [topic |-> Topic(<<"7">>, "realtime"),
    payload |-> Some([soc |-> BadStrV, soh |-> NumStrV(90), pv |-> NullV,
                      firmware |-> IntV(3)])],
   [topic |-> Topic(<<"1", "2">>, "realtime"),
    payload |-> Some([soc |-> IntV(55), pv |-> IntV(1200), load |-> IntV(900)])],
   [topic |-> Topic(<<"1", "2">>, "realtime"), payload |-> Some(NoPayload)],
   [topic |-> Topic(<<"7">>, "realtime"), payload |-> None],
   [topic |-> Topic(<<"x">>, "realtime"), payload |-> Some(NoPayload)]}

InitTelemetry == InitWith({RegisteredDevice(12, <<"E", "S", "S", "1", "2">>)}, {})

NextTelemetry ==
  \/ \E msg \in RealtimeMsgs : on_message(msg)
  \/ Tick
  \/ flusher_get
  \/ flusher_collect_end
  \/ flusher_write
  \/ flusher_db_error

SpecTelemetry == InitTelemetry /\ [][NextTelemetry]_vars

\* ------------------------------------------------------- history pipeline
\* the history-energy messages of the model: two devices, two buckets, a
\* re-delivery with other counters, a message without ts, a null counter
HistoryMsgs ==
  {[topic |-> Topic(<<"7">>, "history"),
    payload |-> Some([ts |-> IntV(1), charge_wh_total |-> IntV(10)])],
   [topic |-> Topic(<<"7">>, "history"),
    payload |-> Some([ts |-> IntV(1), charge_wh_total |-> IntV(20),
                      pv_wh_total |-> NumStrV(5)])],
   [topic |-> Topic(<<"7">>, "history"),
    payload |-> Some([ts |-> IntV(2), charge_wh_total |-> IntV(10)])],
   [topic |-> Topic(<<"1", "2">>, "history"),
    payload |-> Some([ts |-> IntV(1), charge_wh_total |-> IntV(10)])],
   [topic |-> Topic(<<"7">>, "history"),
    payload |-> Some([charge_wh_total |-> IntV(10)])],
   [topic |-> Topic(<<"7">>, "history"),
    payload |-> Some([ts |-> IntV(1), charge_wh_total |-> NullV])]}

NextHistory ==
  \/ \E msg \in HistoryMsgs : on_message(msg)
  \/ Tick
  \/ history_flusher_get
  \/ history_flusher_collect_end
  \/ history_flusher_write
  \/ history_flusher_db_error

SpecHistory == InitTelemetry /\ [][NextHistory]_vars

\* --------------------------------------------------------- alarm pipeline
\* an alarm payload for alarm (device 7, "system", 3); absent keys are None
AlarmPayload(level, status, confirmed_at, confirmed_by, cleared_at) ==
  [alarm_type |-> Some("system"), code |-> Some(3), level |-> level,
   status |-> status, extra |-> None, remark |-> None,
   confirmed_at |-> confirmed_at, confirmed_by |-> confirmed_by,
   cleared_at |-> cleared_at, cleared_by |-> None]

AlarmMsg(payload) == [topic |-> Topic(<<"7">>, "alarm"), payload |-> Some(payload)]

\* the alarm messages of the model: triggers and clears of a critical and of
\* a non-critical level, with and without a confirmation, with and without
\* the device's own cleared_at, and a payload that names no level
AlarmMsgs ==
  {AlarmMsg(AlarmPayload(Some("critical"), Some("active"), None, None, None)),
   AlarmMsg(AlarmPayload(Some("critical"), Some("cleared"), None, None, None)),
   AlarmMsg(AlarmPayload(Some("critical"), Some("cleared"), None, Some("op"), None)),
   AlarmMsg(AlarmPayload(Some("minor"), Some("active"), None, None, None)),
   AlarmMsg(AlarmPayload(Some("minor"), Some("cleared"), None, None, None)),
   AlarmMsg(AlarmPayload(None, Some("cleared"), Some(1), Some("op"), Some(0)))}

\* device 7 is registered: alarm_flusher registers no device itself
InitAlarm == InitWith({RegisteredDevice(7, <<"E", "S", "S", "7">>)}, {})

NextAlarm ==
  \/ \E msg \in AlarmMsgs : on_message(msg)
  \/ Tick
  \/ alarm_flusher_get
  \/ alarm_flusher_collect_end
  \/ alarm_flusher_write
  \/ alarm_flusher_db_error
  \/ archive_alarm_worker_get
  \/ archive_alarm_worker_select
  \/ archive_alarm_worker_archive
  \/ archive_alarm_worker_db_error

SpecAlarm == InitAlarm /\ [][NextAlarm]_vars

\* ------------------------------------------- command acknowledgment pipeline
Sn1 == <<"E", "S", "S", "1">>

Sn2 == <<"E", "S", "S", "2">>

RpcAckMsg(sn, response_id, status) ==
  [topic |-> Topic(sn, "rpc_ack"),
   payload |-> Some([response_id |-> response_id, status |-> status])]

\* the acknowledgments of the model: two terminal statuses for one request
\* of device 1, the same request id from device 2, an unknown request id, a
\* status outside the valid ones, and a payload without response_id
RpcAckMsgs ==
  {RpcAckMsg(Sn1, Some("r1"), Some("success")),
   RpcAckMsg(Sn1, Some("r1"), Some("failed")),
   RpcAckMsg(Sn2, Some("r1"), Some("timeout")),
   RpcAckMsg(Sn1, Some("r9"), Some("success")),
   RpcAckMsg(Sn1, Some("r1"), Some("done")),
   RpcAckMsg(Sn1, None, Some("success"))}

\* a command-log row as the API inserts it, and one already terminated
RpcRow(id, device_id, request_id, status, confirmed_at) ==
  [id |-> id, device_id |-> device_id, request_id |-> request_id,
   status |-> status, confirmed_at |-> confirmed_at]

\* the command log before the run: the same request id pending for two
\* devices, and a request of device 1 that is already terminal
RpcRows ==
  {RpcRow(1, 1, "r1", "pending", None),
   RpcRow(2, 2, "r1", "pending", None),
   RpcRow(3, 1, "r2", "success", Some(0))}

RpcDevices == {RegisteredDevice(1, Sn1), RegisteredDevice(2, Sn2)}

InitRpc == InitWith(RpcDevices, RpcRows)

NextRpc ==
  \/ \E msg \in RpcAckMsgs : on_message(msg)
  \/ Tick
  \/ rpc_ack_flusher_get
  \/ rpc_ack_flusher_collect_end
  \/ rpc_ack_flusher_write
  \/ rpc_ack_flusher_db_error

SpecRpc == InitRpc /\ [][NextRpc]_vars

\* -------------------------------------------- telemetry and history together
\* both flushers that register devices, on messages of devices the store
\* does not know (7, 3 and the five-digit 12345) and of one it knows (12)
ProvisionDevices == {RegisteredDevice(12, <<"E", "S", "S", "1", "2">>)}

ProvisionMsgs ==
  {[topic |-> Topic(<<"7">>, "realtime"),
    payload |-> Some([soc |-> IntV(55)])],
   [topic |-> Topic(<<"1", "2">>, "realtime"),
    payload |-> Some([soc |-> IntV(55)])],
   [topic |-> Topic(<<"1", "2", "3", "4", "5">>, "realtime"),
    payload |-> Some([soc |-> IntV(55)])],
   [topic |-> Topic(<<"7">>, "history"),
    payload |-> Some([ts |-> IntV(1), charge_wh_total |-> IntV(10)])],
   [topic |-> Topic(<<"3">>, "history"),
    payload |-> Some([ts |-> IntV(1), charge_wh_total |-> IntV(10)])]}

InitProvision == InitWith(ProvisionDevices, {})

NextProvision ==
  \/ \E msg \in ProvisionMsgs : on_message(msg)
  \/ Tick
  \/ flusher_get
  \/ flusher_collect_end
  \/ flusher_write
  \/ flusher_db_error
  \/ history_flusher_get
  \/ history_flusher_collect_end
  \/ history_flusher_write
  \/ history_flusher_db_error

SpecProvision == InitProvision /\ [][NextProvision]_vars

\* ------------------------------------------- alarms of an unknown device
\* the alarm pipeline on the alarms of device 7 when the store has a row for
\* device 12 only (InitProvision)

NextAlarmUnknown ==
  \/ \E msg \in AlarmMsgs : on_message(msg)
  \/ Tick
  \/ alarm_flusher_get
  \/ alarm_flusher_collect_end
  \/ alarm_flusher_write
  \/ alarm_flusher_db_error
  \/ archive_alarm_worker_get
  \/ archive_alarm_worker_select
  \/ archive_alarm_worker_archive
  \/ archive_alarm_worker_db_error

SpecAlarmUnknown == InitProvision /\ [][NextAlarmUnknown]_vars

\* ------------------------------------------------------------ whole system
\* the router and every worker together, on one message for each queue,
\* within one second of the clock (the pipelines above cover the timestamps)
SystemRealtimeMsgs ==
  {[topic |-> Topic(<<"7">>, "realtime"),
    payload |-> Some([soc |-> IntV(55), pv |-> IntV(1200), load |-> IntV(900)])]}

SystemHistoryMsgs ==
  {[topic |-> Topic(<<"7">>, "history"),
    payload |-> Some([ts |-> IntV(1), charge_wh_total |-> IntV(10)])]}

SystemAlarmMsgs ==
  {AlarmMsg(AlarmPayload(Some("critical"), Some("active"), None, None, None)),
   AlarmMsg(AlarmPayload(Some("minor"), Some("cleared"), None, None, None))}

\* a parameters payload: the parameters and, when the device sends it, its
\* own updated_at
ParaMsg(sn, body, updated_at) ==
  [topic |-> Topic(sn, "para"),
   payload |-> Some([body |-> body, updated_at |-> updated_at])]

SystemParaMsgs == {ParaMsg(<<"7">>, "p1", None)}

SystemRpcAckMsgs == {RpcAckMsg(Sn1, Some("r1"), Some("success"))}

Init ==
  InitWith({RegisteredDevice(1, Sn1), RegisteredDevice(2, Sn2),
            RegisteredDevice(7, <<"E", "S", "S", "7">>)},
           {RpcRow(1, 1, "r1", "pending", None)})

Next ==
  \/ \E msg \in SystemRealtimeMsgs : on_message(msg)
  \/ \E msg \in SystemHistoryMsgs : on_message(msg)
  \/ \E msg \in SystemAlarmMsgs : on_message(msg)
  \/ \E msg \in SystemParaMsgs : on_message(msg)
  \/ \E msg \in SystemRpcAckMsgs : on_message(msg)
  \/ flusher_get
  \/ flusher_collect_end
  \/ flusher_write
  \/ flusher_db_error
  \/ history_flusher_get
  \/ history_flusher_collect_end
  \/ history_flusher_write
  \/ history_flusher_db_error
  \/ alarm_flusher_get
  \/ alarm_flusher_collect_end
  \/ alarm_flusher_write
  \/ alarm_flusher_db_error
  \/ archive_alarm_worker_get
  \/ archive_alarm_worker_select
  \/ archive_alarm_worker_archive
  \/ archive_alarm_worker_db_error
  \/ para_flusher_get
  \/ para_flusher_collect_end
  \/ para_flusher_write
  \/ para_flusher_db_error
  \/ rpc_ack_flusher_get
  \/ rpc_ack_flusher_collect_end
  \/ rpc_ack_flusher_write
  \/ rpc_ack_flusher_db_error

Spec == Init /\ [][Next]_vars

\* ------------------------------------------------------------- router alone
\* messages on_message gives up on: a topic that ends in none of the five
\* suffixes, a topic whose first part is not "devices", a topic with too few
\* parts, device ids int() rejects, and payloads json.loads or decode
\* rejects
MalformedMsgs ==
  {[topic |-> <<"devices", <<"7">>, "status">>, payload |-> Some(NoPayload)],
   [topic |-> <<"plant", <<"7">>, "realtime">>,
    payload |-> Some([soc |-> IntV(55)])],
   [topic |-> <<"devices", "alarm">>, payload |-> Some(NoPayload)],
   [topic |-> Topic(<<"x">>, "realtime"), payload |-> Some([soc |-> IntV(55)])],
   [topic |-> Topic(<<"x">>, "alarm"),
    payload |-> Some(AlarmPayload(Some("critical"), Some("active"), None, None,
                                  None))],
   [topic |-> Topic(<<"7">>, "realtime"), payload |-> None],
   [topic |-> Topic(<<"7">>, "alarm"), payload |-> None],
   [topic |-> Topic(Sn1, "rpc_ack"), payload |-> None]}

\* one well-formed message for each queue
WellFormedMsgs ==
  SystemRealtimeMsgs \cup SystemHistoryMsgs \cup SystemAlarmMsgs
    \cup SystemParaMsgs \cup SystemRpcAckMsgs

NextRouter ==
  \/ \E msg \in MalformedMsgs : on_message(msg)
  \/ \E msg \in WellFormedMsgs : on_message(msg)
  \/ Tick

SpecRouter == Init /\ [][NextRouter]_vars

\* ------------------------------------------------- flusher and its connection
\* the telemetry flusher from before its first psycopg2.connect, PostgreSQL
\* going down and coming back, on telemetry of device 7
InitReconnect ==
  InitAt(ProvisionDevices, {}, [Running EXCEPT !["flusher"] = "connect"], TRUE)

NextReconnect ==
  \/ \E msg \in SystemRealtimeMsgs : on_message(msg)
  \/ TickBackoff
  \/ pg_fail
  \/ pg_recover
  \/ flusher_connect
  \/ flusher_connect_error
  \/ flusher_get
  \/ flusher_collect_end
  \/ flusher_write
  \/ flusher_db_error
  \/ flusher_conn_lost
  \/ flusher_backoff_end

\* the flusher thread is scheduled and its calls return: a connect to a
\* reachable PostgreSQL, a q.get on a non-empty queue, the end of the
\* collection at the deadline, the write (done or failed), the sleep; and
\* the clock advances
FairReconnect ==
  /\ WF_vars(flusher_connect)
  /\ WF_vars(flusher_get)
  /\ WF_vars(flusher_collect_end)
  /\ WF_vars(flusher_write \/ flusher_db_error \/ flusher_conn_lost)
  /\ WF_vars(flusher_backoff_end)
  /\ WF_vars(TickBackoff)

SpecReconnectFair == InitReconnect /\ [][NextReconnect]_vars /\ FairReconnect

\* ------------------------------------------------------------------ shutdown
\* main, the telemetry flusher and the archiver with the stop signal: a
\* SIGTERM at any moment, the supervision loop, the return of main. The
\* other flushers run their loop on empty queues. The messages are
\* telemetry of device 7 and a cleared alarm, which goes to the archiver
\* (no alarm is live, so the archiver's SELECT finds no row).
ShutdownMsgs ==
  SystemRealtimeMsgs
    \cup {AlarmMsg(AlarmPayload(Some("minor"), Some("cleared"), None, None, None))}

NextShutdown ==
  \/ \E msg \in ShutdownMsgs : deliver(msg)
  \/ flusher_get
  \/ flusher_collect_end
  \/ flusher_write
  \/ flusher_db_error
  \/ history_flusher_collect_end
  \/ alarm_flusher_collect_end
  \/ para_flusher_collect_end
  \/ rpc_ack_flusher_collect_end
  \/ archive_alarm_worker_get
  \/ archive_alarm_worker_select
  \/ archive_alarm_worker_db_error
  \/ archive_alarm_worker_fatal
  \/ archive_alarm_worker_stop
  \/ shutdown
  \/ main_supervise
  \/ main_exit

SpecShutdown == Init /\ [][NextShutdown]_vars

\* every thread is scheduled for as long as the process lives, its storage
\* calls return, and main's loop runs
FairShutdown ==
  /\ WF_vars(flusher_get)
  /\ WF_vars(flusher_collect_end)
  /\ WF_vars(flusher_write \/ flusher_db_error)
  /\ WF_vars(history_flusher_collect_end)
  /\ WF_vars(alarm_flusher_collect_end)
  /\ WF_vars(para_flusher_collect_end)
  /\ WF_vars(rpc_ack_flusher_collect_end)
  /\ WF_vars(archive_alarm_worker_get)
  /\ WF_vars(archive_alarm_worker_select \/ archive_alarm_worker_db_error
               \/ archive_alarm_worker_fatal)
  /\ WF_vars(archive_alarm_worker_stop)
  /\ WF_vars(main_supervise)
  /\ WF_vars(main_exit)

SpecShutdownFair == Init /\ [][NextShutdown]_vars /\ FairShutdown

\* ---------------------------------------------------------------- bus client
\* the client from before its first connection, the broker accepting or
\* refusing (rc 5, not authorized) each attempt, with the messages
\* published meanwhile: one of each class and one of a topic no filter has
PublishedMsgs ==
  WellFormedMsgs
    \cup {[topic |-> <<"devices", <<"7">>, "status">>, payload |-> Some(NoPayload)]}

InitMqtt ==
  InitAt({RegisteredDevice(7, <<"E", "S", "S", "7">>)}, {}, Running, FALSE)

NextMqtt ==
  \/ \E rc \in {0, 5} : on_connect(rc)
  \/ connection_lost
  \/ \E msg \in PublishedMsgs : deliver(msg)
  \/ Tick

SpecMqtt == InitMqtt /\ [][NextMqtt]_vars

\* the tables a flusher writes
Store ==
  [devices |-> devices, ess_realtime_data |-> ess_realtime_data,
   history_energy |-> history_energy, alarms |-> alarms,
   alarms_id_seq |-> alarms_id_seq, device_para |-> device_para,
   device_rpc_change_log |-> device_rpc_change_log]

\* the transaction of flusher w for the batch b at time t on the tables S:
\* the statements of its `if batch:` block and conn.commit(), or
\* conn.rollback() when a statement fails on a constraint
Transaction(S, w, b, t) ==
  CASE w = "flusher" ->
         LET devs == ensure_devices_exist(S.devices, b, t)
         IN IF fk_devices_ok(devs, b)
            THEN [S EXCEPT !.devices = devs,
                           !.ess_realtime_data = execute_batch_upsert(@, b, t)]
            ELSE S
    [] w = "history_flusher" ->
         LET devs == ensure_devices_exist(S.devices, b, t)
         IN IF fk_devices_ok(devs, b) /\ history_key_ok(b)
            THEN [S EXCEPT !.devices = devs,
                           !.history_energy = execute_batch_history(@, b)]
            ELSE S
    [] w = "alarm_flusher" ->
         LET a == execute_batch_alarm([rows |-> S.alarms,
                                       id_seq |-> S.alarms_id_seq], b)
         IN [S EXCEPT !.alarms = a.rows, !.alarms_id_seq = a.id_seq]
    [] w = "para_flusher" ->
         [S EXCEPT !.device_para = execute_batch_para(@, b)]
    [] w = "rpc_ack_flusher" ->
         [S EXCEPT !.device_rpc_change_log =
                     execute_batch_rpc_ack(@, S.devices, b, t)]

\* -------------------------------------------------------------- batch writes
\* the five flushers on batches of two: for every stream class two different
\* records of one natural key and a record of another key; every write
\* succeeds, and a run has the traffic of one stream class
BatchMsgs ==
  {[topic |-> Topic(<<"7">>, "realtime"),
    payload |-> Some([soc |-> IntV(55), pv |-> IntV(1200), load |-> IntV(900)])],
   [topic |-> Topic(<<"7">>, "realtime"), payload |-> Some([soc |-> IntV(56)])],
   [topic |-> Topic(<<"1", "2">>, "realtime"), payload |-> Some([soc |-> IntV(55)])],
   [topic |-> Topic(<<"7">>, "history"),
    payload |-> Some([ts |-> IntV(1), charge_wh_total |-> IntV(10)])],
   [topic |-> Topic(<<"7">>, "history"),
    payload |-> Some([ts |-> IntV(1), charge_wh_total |-> IntV(20)])],
   [topic |-> Topic(<<"7">>, "history"),
    payload |-> Some([ts |-> IntV(2), charge_wh_total |-> IntV(10)])],
   AlarmMsg(AlarmPayload(Some("critical"), Some("active"), None, None, None)),
   AlarmMsg(AlarmPayload(Some("minor"), Some("active"), None, None, None)),
   [topic |-> Topic(<<"1", "2">>, "alarm"),
    payload |-> Some(AlarmPayload(Some("minor"), Some("active"), None, None, None))],
   ParaMsg(<<"7">>, "p1", None),
   ParaMsg(<<"7">>, "p2", None),
   ParaMsg(<<"1", "2">>, "p1", None),
   RpcAckMsg(Sn1, Some("r1"), Some("success")),
   RpcAckMsg(Sn1, Some("r1"), Some("failed")),
   RpcAckMsg(Sn2, Some("r1"), Some("timeout"))}

\* the devices of a run publish on one stream class: no other flusher has
\* had a record when msg arrives
SingleStream(msg) ==
  LET \* the name of the queue that flusher w consumes
      StreamQueue(w) ==
        CASE w = "flusher" -> "q"
          [] w = "history_flusher" -> "history_q"
          [] w = "alarm_flusher" -> "alarm_q"
          [] w = "para_flusher" -> "para_q"
          [] w = "rpc_ack_flusher" -> "rpc_ack_q"
  IN \A w \in Flushers :
       StreamQueue(w) # route(msg, now).to =>
         QueueOf(StreamQueue(w)) = <<>> /\ batch[w] = <<>> /\ committed[w] = <<>>

NextBatch ==
  \/ \E msg \in BatchMsgs : SingleStream(msg) /\ on_message(msg)
  \/ Tick
  \/ flusher_get
  \/ flusher_collect_end
  \/ flusher_write
  \/ history_flusher_get
  \/ history_flusher_collect_end
  \/ history_flusher_write
  \/ alarm_flusher_get
  \/ alarm_flusher_collect_end
  \/ alarm_flusher_write
  \/ para_flusher_get
  \/ para_flusher_collect_end
  \/ para_flusher_write
  \/ rpc_ack_flusher_get
  \/ rpc_ack_flusher_collect_end
  \/ rpc_ack_flusher_write

\* the store has the devices and requests of the acknowledgements and device 7
SpecBatch ==
  /\ InitWith(RpcDevices \cup {RegisteredDevice(7, <<"E", "S", "S", "7">>)}, RpcRows)
  /\ [][NextBatch]_vars

\* ------------------------------------------------------ trigger, then clear
\* a non-critical alarm of device 7 is triggered, once or more, and then
\* cleared; nothing arrives after the clear and every write succeeds
TriggerMsg == AlarmMsg(AlarmPayload(Some("minor"), Some("active"), None, None, None))

ClearMsg == AlarmMsg(AlarmPayload(Some("minor"), Some("cleared"), None, None, None))

\* until the clear is delivered (it is queued, or the archiver has taken it)
NextLifecycle ==
  \/ archive_alarm_q = <<>> /\ alarm = None /\ nmsg < MaxMsgs - 1
       /\ on_message(TriggerMsg)
  \/ archive_alarm_q = <<>> /\ alarm = None /\ nmsg >= 1
       /\ on_message(ClearMsg)
  \/ Tick
  \/ alarm_flusher_get
  \/ alarm_flusher_collect_end
  \/ alarm_flusher_write
  \/ archive_alarm_worker_get
  \/ archive_alarm_worker_select
  \/ archive_alarm_worker_archive

\* alarm_flusher and archive_alarm_worker are threads of their own: each
\* goes on whenever it can take a step
SpecLifecycleFair ==
  /\ InitAlarm
  /\ [][NextLifecycle]_vars
  /\ WF_vars(alarm_flusher_get)
  /\ WF_vars(alarm_flusher_collect_end)
  /\ WF_vars(alarm_flusher_write)
  /\ WF_vars(archive_alarm_worker_get)
  /\ WF_vars(archive_alarm_worker_select)
  /\ WF_vars(archive_alarm_worker_archive)

\* ------------------------------------------------- two processes, one store
\* two ingestor processes of the shared subscription on the same database:
\* this one and a second one whose archiver is modelled; a non-critical
\* alarm of device 7 is triggered and cleared, the broker handing each
\* clear to either process; every write succeeds
NextShared ==
  \/ on_message(TriggerMsg)
  \/ on_message(ClearMsg)
  \/ peer_on_message(ClearMsg)
  \/ Tick
  \/ alarm_flusher_get
  \/ alarm_flusher_collect_end
  \/ alarm_flusher_write
  \/ archive_alarm_worker_get
  \/ archive_alarm_worker_select
  \/ archive_alarm_worker_archive
  \/ peer_archive_alarm_worker_get
  \/ peer_archive_alarm_worker_select
  \/ peer_archive_alarm_worker_archive

SpecShared == InitAlarm /\ [][NextShared]_vars

\* ================================================================== claims
QueueNames ==
  {"q", "history_q", "alarm_q", "para_q", "rpc_ack_q", "archive_alarm_q"}

SystemMsgs ==
  SystemRealtimeMsgs \cup SystemHistoryMsgs \cup SystemAlarmMsgs
    \cup SystemParaMsgs \cup SystemRpcAckMsgs

\* the delivery numbers of the entries a sequence of entries holds
SeqNos(entries) == {entries[i].seq : i \in 1..Len(entries)}

\* the delivery numbers of the records that are queued, collected, being
\* archived, committed, or in a row of a table
Held ==
  UNION {SeqNos(QueueOf(n)) : n \in QueueNames}
    \cup UNION {SeqNos(batch[w]) : w \in Flushers}
    \cup SeqNos(alarm)
    \cup UNION {SeqNos(committed[w]) : w \in Workers}
    \cup {r.seq : r \in ess_realtime_data}
    \cup {r.seq : r \in history_energy}
    \cup {r.seq : r \in device_para}
    \cup SeqNos(alarm_history)

\* on_message for a message routed to the full queue `name` leaves that
\* queue as it was, the new record being the one dropped
OverloadStep(name) ==
  \A msg \in SystemMsgs :
    (/\ nmsg' = nmsg + 1
     /\ put_full(QueueOf(name))
     /\ route(msg, now).to = name
     /\ on_message(msg))
      => /\ QueueOf(name)' = QueueOf(name)
         /\ dropped' = dropped \cup {nmsg'}

\* on_message is enabled for every message whose queue is full: the put
\* does not block and the queue.Full it raises is caught
OverloadReturns ==
  \A name \in QueueNames :
    (nmsg < MaxMsgs /\ put_full(QueueOf(name)))
      => \A msg \in SystemMsgs :
           route(msg, now).to = name => ENABLED on_message(msg)

\* C1: when a queue holds QUEUE_MAXSIZE records, on_message for one more
\* message of its class returns, leaves the queue's contents unchanged and
\* drops the new record, and a dropped record is never queued, collected,
\* committed or stored.
C1_OverloadDropping ==
  /\ [](dropped \cap Held = {})
  /\ []OverloadReturns
  /\ [][\A name \in QueueNames : OverloadStep(name)]_vars

\* a record was dropped on a full telemetry queue, and an earlier record of
\* that queue has since been stored
C1_Witness ==
  /\ dropped # {}
  /\ \E n \in dropped : \E r \in ess_realtime_data : r.seq < n

\* the entry with the greatest delivery number of a non-empty set of entries
Latest(es) == CHOOSE e \in es : \A o \in es : o.seq <= e.seq

\* the entries the telemetry flusher committed for device did
CommittedTelemetry(did) ==
  {e \in Range(committed["flusher"]) : e.rec.device_id = did}

\* C2: after any telemetry messages whose batches committed, ess_realtime_data
\* has exactly one row for each device with a committed record and none for
\* any other device, and that row's fields are the normalized values of the
\* last message enqueued for the device among the committed ones, whether
\* the messages were written in one batch or in several.
C2_TelemetryUpsert ==
  /\ \A r1, r2 \in ess_realtime_data :
       r1.vals.device_id = r2.vals.device_id => r1 = r2
  /\ {r.vals.device_id : r \in ess_realtime_data}
       = {e.rec.device_id : e \in Range(committed["flusher"])}
  /\ \A r \in ess_realtime_data :
       LET last == Latest(CommittedTelemetry(r.vals.device_id))
       IN r.vals = last.rec /\ r.seq = last.seq

\* two messages of one device with different values were committed and the
\* device's row carries the values of the second
C2_Witness ==
  /\ Len(committed["flusher"]) = 2
  /\ committed["flusher"][1].rec.device_id = committed["flusher"][2].rec.device_id
  /\ committed["flusher"][1].rec # committed["flusher"][2].rec
  /\ \E r \in ess_realtime_data : r.vals = committed["flusher"][2].rec

\* the entries the history flusher committed for the bucket (did, ts)
CommittedHistory(did, ts) ==
  {e \in Range(committed["history_flusher"]) :
     e.rec.device_id = did /\ e.rec.ts = ts}

\* C3: for any committed history-energy messages, history_energy has at most
\* one row for a (device, ts), exactly the committed buckets have a row, and
\* the row's counters are those of the latest message enqueued for the
\* bucket among the committed ones.
C3_HistoryBucket ==
  /\ \A r1, r2 \in history_energy :
       (r1.vals.device_id = r2.vals.device_id /\ r1.vals.ts = r2.vals.ts)
         => r1 = r2
  /\ {<<r.vals.device_id, r.vals.ts>> : r \in history_energy}
       = {<<e.rec.device_id, e.rec.ts>> : e \in Range(committed["history_flusher"])}
  /\ \A r \in history_energy :
       LET last == Latest(CommittedHistory(r.vals.device_id, r.vals.ts))
       IN r.vals = last.rec /\ r.seq = last.seq

\* two messages for one bucket with different counters and a message for
\* another bucket of the same device were committed: two rows, the first
\* bucket with the counters of the later message
C3_Witness ==
  \E e1, e2, e3 \in Range(committed["history_flusher"]) :
    /\ e1.seq < e2.seq
    /\ e1.rec.device_id = e2.rec.device_id /\ e1.rec.ts = e2.rec.ts
    /\ e1.rec # e2.rec
    /\ e3.rec.device_id = e1.rec.device_id /\ e3.rec.ts # e1.rec.ts
    /\ Cardinality(history_energy) = 2
    /\ \E r \in history_energy : r.vals = e2.rec

\* the natural key of an alarm record or row
AlarmKey(a) == <<a.device_id, a.alarm_type, a.code>>

\* the positions in alarm_flusher's commits of the triggers of a key
Triggers(key) ==
  {i \in 1..Len(committed["alarm_flusher"]) :
     /\ AlarmKey(committed["alarm_flusher"][i].rec) = key
     /\ committed["alarm_flusher"][i].rec.status = "active"}

\* C4: n committed triggers (status active) of one (device, alarm type,
\* code), with no archival so far, leave exactly one active row for the key,
\* with repeat_count = n and last_triggered_at the time of the n-th trigger;
\* when the triggers are all that was committed, that row is the key's only
\* row in alarms.
C4_RepeatCounting ==
  alarm_history = <<>> =>
    \A key \in {AlarmKey(e.rec) : e \in Range(committed["alarm_flusher"])} :
      LET n == Cardinality(Triggers(key))
          live == {r \in alarms : AlarmKey(r) = key /\ r.status = "active"}
          rows == {r \in alarms : AlarmKey(r) = key}
      IN /\ n >= 1 =>
              /\ Cardinality(live) = 1
              /\ \A r \in live :
                   /\ r.repeat_count = n
                   /\ r.last_triggered_at =
                        committed["alarm_flusher"][SetMax(Triggers(key))]
                          .rec.last_triggered_at
         /\ (\A e \in Range(committed["alarm_flusher"]) : e.rec.status = "active")
              => rows = live

\* three triggers were committed, the third one second after the first: one
\* row, counted three times, first triggered at 0 and last at 1
C4_Witness ==
  /\ alarm_history = <<>>
  /\ Len(committed["alarm_flusher"]) = 3
  /\ \A e \in Range(committed["alarm_flusher"]) : e.rec.status = "active"
  /\ Cardinality(alarms) = 1
  /\ \E r \in alarms :
       /\ r.repeat_count = 3
       /\ r.first_triggered_at = 0
       /\ r.last_triggered_at = 1

\* an alarm message that is critical, cleared and carries no confirmation
UnconfirmedCriticalClear(msg) ==
  /\ msg.payload[1].level = Some("critical")
  /\ msg.payload[1].status = Some("cleared")
  /\ msg.payload[1].confirmed_at = None
  /\ msg.payload[1].confirmed_by = None

\* an alarm record that is critical, cleared and not confirmed
UnconfirmedCritical(a) ==
  a.level = "critical" /\ a.status = "cleared" /\ a.confirmed_at = None

\* on_message for an unconfirmed critical clear leaves the archive queue,
\* alarm_history and alarms as they are
C5_RouterStep ==
  \A msg \in AlarmMsgs :
    (nmsg' = nmsg + 1 /\ UnconfirmedCriticalClear(msg) /\ on_message(msg))
      => /\ archive_alarm_q' = archive_alarm_q
         /\ alarm_q' = put(alarm_q, Entry(alarm_record(msg.topic[2], msg.payload[1], now),
                                       nmsg'))
         /\ alarm_history' = alarm_history
         /\ alarms' = alarms

\* alarm_flusher, the worker that processes it, adds no alarm_history row
\* and every row of alarms is still there after its write, with its status
C5_FlusherStep ==
  alarm_flusher_write
    => /\ alarm_history' = alarm_history
       /\ \A r \in alarms : \E r2 \in alarms' : r2.id = r.id /\ r2.status = r.status

\* C5: a critical cleared alarm message without confirmed_at and confirmed_by
\* is never on the archive queue nor taken by the archiver; on_message puts
\* it on alarm_q, and processing it adds no alarm_history row and removes no
\* row of alarms.
C5_CriticalGating ==
  /\ [](\A e \in Range(archive_alarm_q) \cup Range(alarm)
                   \cup Range(committed["archive_alarm_worker"]) :
          ~UnconfirmedCritical(e.rec))
  /\ [][C5_RouterStep /\ C5_FlusherStep]_vars

\* alarm_flusher committed a trigger and then an unconfirmed critical clear:
\* nothing is archived and the triggered row is still active in alarms
C5_Witness ==
  /\ \E i, j \in 1..Len(committed["alarm_flusher"]) :
       /\ i < j
       /\ committed["alarm_flusher"][i].rec.status = "active"
       /\ committed["alarm_flusher"][i].rec.level = "critical"
       /\ UnconfirmedCritical(committed["alarm_flusher"][j].rec)
  /\ alarm_history = <<>>
  /\ \E r \in alarms : r.status = "active" /\ r.level = "critical"

\* C6: after a critical alarm was triggered and then cleared without a
\* confirmation, both committed by alarm_flusher, the archiver's archival of
\* a later confirmed clear of the same (device, type, code) leaves no row
\* of that key in alarms.
C6_ArchivedOnceConfirmed ==
  [][(/\ archive_alarm_worker_archive
      /\ alarm[1].rec.level = "critical"
      /\ Len(committed["alarm_flusher"]) = 2
      /\ committed["alarm_flusher"][1].rec.level = "critical"
      /\ committed["alarm_flusher"][1].rec.status = "active"
      /\ UnconfirmedCritical(committed["alarm_flusher"][2].rec)
      /\ \A e \in Range(committed["alarm_flusher"]) :
           AlarmKey(e.rec) = AlarmKey(alarm[1].rec) /\ e.seq < alarm[1].seq)
     => \A r \in alarms' : AlarmKey(r) # AlarmKey(alarm[1].rec)]_vars

\* an alarm record that is cleared and of a level other than critical
NonCriticalClear(a) ==
  a.level \in {"info", "minor", "major"} /\ a.status = "cleared"

\* on_message for a non-critical clear puts it on the archive queue (a full
\* queue drops it) and leaves alarm_q as it is
C7_RouterStep ==
  \A msg \in AlarmMsgs :
    LET a == alarm_record(msg.topic[2], msg.payload[1], now)
    IN (nmsg' = nmsg + 1 /\ NonCriticalClear(a) /\ on_message(msg))
         => /\ alarm_q' = alarm_q
            /\ archive_alarm_q' = put(archive_alarm_q, Entry(a, nmsg'))
            /\ ~put_full(archive_alarm_q)
                 => archive_alarm_q'[Len(archive_alarm_q')].seq = nmsg'

\* the archiver's SELECT for a non-critical clear finds a row whenever
\* alarms has a non-cleared row of its key: a non-cleared row of that key
C7_SelectStep ==
  (/\ archive_alarm_worker_select
   /\ NonCriticalClear(alarm[1].rec)
   /\ \E r \in alarms : AlarmKey(r) = AlarmKey(alarm[1].rec) /\ r.status # "cleared")
    => /\ pc'["archive_alarm_worker"] = "archive"
       /\ row' # None
       /\ row'[1] \in alarms
       /\ AlarmKey(row'[1]) = AlarmKey(alarm[1].rec)
       /\ row'[1].status # "cleared"

\* the archival moves the selected row: it leaves alarms and alarm_history
\* gains one row with its fields, status cleared and the message's cleared_at
C7_ArchiveStep ==
  (archive_alarm_worker_archive /\ NonCriticalClear(alarm[1].rec))
    => /\ alarms' = {r \in alarms : r.id # row[1].id}
       /\ Len(alarm_history') = Len(alarm_history) + 1
       /\ SubSeq(alarm_history', 1, Len(alarm_history)) = alarm_history
       /\ LET h == alarm_history'[Len(alarm_history')]
          IN /\ h.live_id = row[1].id
             /\ AlarmKey(h) = AlarmKey(row[1])
             /\ h.level = row[1].level
             /\ h.first_triggered_at = row[1].first_triggered_at
             /\ h.last_triggered_at = row[1].last_triggered_at
             /\ h.repeat_count = row[1].repeat_count
             /\ h.status = "cleared"
             /\ h.cleared_at = alarm[1].rec.cleared_at
             /\ h.archived_at = now

\* C7: a cleared alarm message of level info, minor or major is put on the
\* archive queue and never on alarm_q, confirmed or not; when the archiver
\* processes it and alarms has a non-cleared row of its key, that row is
\* removed from alarms and a row with its fields is added to alarm_history.
C7_NonCriticalArchival ==
  /\ [](\A e \in Range(alarm_q) \cup Range(batch["alarm_flusher"])
                   \cup Range(committed["alarm_flusher"]) :
          ~NonCriticalClear(e.rec))
  /\ [][C7_RouterStep /\ C7_SelectStep /\ C7_ArchiveStep]_vars

\* the archiver committed an unconfirmed minor clear: alarm_history has the
\* row it moved and alarms has no row left
C7_Witness ==
  \E e \in Range(committed["archive_alarm_worker"]) :
    /\ e.rec.level = "minor" /\ e.rec.status = "cleared"
    /\ e.rec.confirmed_at = None
    /\ \E i \in 1..Len(alarm_history) :
         /\ alarm_history[i].seq = e.seq
         /\ alarm_history[i].level = "minor"
         /\ \A r \in alarms : r.id # alarm_history[i].live_id
    /\ alarms = {}

\* C8: every alarm_history row the archiver wrote has a duration of at
\* least 1.
C8_DurationFloor ==
  \A i \in 1..Len(alarm_history) :
    /\ alarm_history[i].duration # None
    /\ alarm_history[i].duration[1] >= 1

\* whether the acknowledgment e is for the command-log row r0
AckFor(e, r0) ==
  /\ e.rec.request_id = r0.request_id
  /\ \E d \in devices : d.device_sn = e.rec.device_sn /\ d.id = r0.device_id

\* the positions in rpc_ack_flusher's commits of the acknowledgments for r0
Acks(r0) ==
  {i \in 1..Len(committed["rpc_ack_flusher"]) :
     AckFor(committed["rpc_ack_flusher"][i], r0)}

SetMin(S) == CHOOSE x \in S : \A y \in S : x <= y

\* every command-log row is the row of before the run, except that a pending
\* row with committed acknowledgments has the status of the first of them
C9_FirstAckWins ==
  /\ {r.id : r \in device_rpc_change_log} = {r0.id : r0 \in RpcRows}
  /\ Cardinality(device_rpc_change_log) = Cardinality(RpcRows)
  /\ \A r0 \in RpcRows : \E r \in device_rpc_change_log :
       /\ r.id = r0.id
       /\ IF r0.status = "pending" /\ Acks(r0) # {}
          THEN /\ r.status =
                    committed["rpc_ack_flusher"][SetMin(Acks(r0))].rec.status
               /\ r.confirmed_at # None
               /\ [r EXCEPT !.status = "pending", !.confirmed_at = None] = r0
          ELSE r = r0

\* a write of rpc_ack_flusher changes no row that is not pending
C9_WriteStep ==
  rpc_ack_flusher_write
    => \A r \in device_rpc_change_log :
         r.status # "pending" => r \in device_rpc_change_log'

\* C9: of two acknowledgments for the same (request id, device), in one
\* batch or in two, the first moves the command-log row from pending to its
\* status and the second changes nothing, also when it carries another
\* terminal status.
C9_AckIdempotence == []C9_FirstAckWins /\ [][C9_WriteStep]_vars

\* two acknowledgments with different statuses for the pending request r1
\* of device 1 were committed: the row has the status of the first
C9_Witness ==
  \E i, j \in Acks(RpcRow(1, 1, "r1", "pending", None)) :
    /\ i < j
    /\ committed["rpc_ack_flusher"][i].rec.status
         # committed["rpc_ack_flusher"][j].rec.status
    /\ \E r \in device_rpc_change_log :
         /\ r.id = 1
         /\ r.status = committed["rpc_ack_flusher"][i].rec.status

\* the entries the two registering flushers committed
CommittedData == Range(committed["flusher"]) \cup Range(committed["history_flusher"])

\* a placeholder serial of device did: "SN", then at least four decimal
\* digits that read as did
IsPlaceholderSn(sn, did) ==
  /\ Len(sn) >= 6
  /\ sn[1] = "S" /\ sn[2] = "N"
  /\ IsNumeric(SubSeq(sn, 3, Len(sn)))
  /\ ParseInt(SubSeq(sn, 3, Len(sn))) = did
  /\ (Len(sn) > 6 => sn[3] # "0")

\* a committing write of a registering flusher adds, in that transaction,
\* exactly the missing device rows of its batch; a rolled back one adds none
C10_WriteStep ==
  /\ \A w \in {"flusher", "history_flusher"} :
       committed'[w] # committed[w]
         => /\ devices \subseteq devices'
            /\ DeviceIds(devices') =
                 DeviceIds(devices) \cup {e.rec.device_id : e \in Range(batch[w])}
  /\ (flusher_db_error \/ history_flusher_db_error) => devices' = devices

\* C10: a telemetry or history batch for a device id without a device row
\* commits without a foreign-key failure, and after the commit the device
\* row, with the placeholder serial made from the id, and the data row both
\* exist; the device row is inserted in the transaction of the write.
C10_AutoProvisioning ==
  /\ [](fk_errors = 0)
  /\ [](\A e \in CommittedData : e.rec.device_id \in DeviceIds(devices))
  /\ [](\A d1, d2 \in devices : d1.id = d2.id => d1 = d2)
  /\ [](\A d \in devices \ ProvisionDevices : IsPlaceholderSn(d.device_sn, d.id))
  /\ [](ProvisionDevices \subseteq devices)
  /\ [](\A r \in ess_realtime_data \cup history_energy :
          r.vals.device_id \in DeviceIds(devices))
  /\ [](\A e \in Range(committed["flusher"]) :
          \E r \in ess_realtime_data : r.vals.device_id = e.rec.device_id)
  /\ [](\A e \in Range(committed["history_flusher"]) :
          \E r \in history_energy :
            r.vals.device_id = e.rec.device_id /\ r.vals.ts = e.rec.ts)
  /\ [][C10_WriteStep]_vars

\* telemetry of the unknown devices 7 and 12345 and history of the unknown
\* device 3 were committed: the three devices have SN0007, SN12345 and
\* SN0003, and each has its data row
C10_Witness ==
  /\ [id |-> 7, device_sn |-> <<"S", "N", "0", "0", "0", "7">>, created_at |-> 1]
       \in devices
  /\ \E d \in devices :
       d.id = 12345 /\ d.device_sn = <<"S", "N", "1", "2", "3", "4", "5">>
  /\ \E d \in devices : d.id = 3 /\ d.device_sn = <<"S", "N", "0", "0", "0", "3">>
  /\ \E r \in ess_realtime_data : r.vals.device_id = 7
  /\ \E r \in ess_realtime_data : r.vals.device_id = 12345
  /\ \E r \in history_energy : r.vals.device_id = 3
  /\ fk_errors = 0

\* C17: in every reachable state each of the six queues (telemetry, history,
\* alarm, device-parameters, command-acknowledgment, alarm-archive) holds at
\* most QUEUE_MAXSIZE records.
C17_BoundedQueues ==
  /\ Cardinality(QueueNames) = 6
  /\ \A name \in QueueNames : Len(QueueOf(name)) <= QUEUE_MAXSIZE

\* the telemetry queue is full and the flusher has taken records from it
\* before: enqueues and dequeues have interleaved
C17_Witness ==
  /\ Len(q) = QUEUE_MAXSIZE
  /\ batch["flusher"] # <<>>

\* the ids of the rows of alarms
AlarmIds == {r.id : r \in alarms}

\* the ids of the alarms rows that alarm_history rows were made from
ArchivedIds == {alarm_history[i].live_id : i \in 1..Len(alarm_history)}

\* a step takes a row out of alarms exactly when it adds that row's history
\* row, one row at a time, and a failed archival changes neither table
C11_Step ==
  /\ AlarmIds \ AlarmIds' = ArchivedIds' \ ArchivedIds
  /\ Cardinality(AlarmIds \ AlarmIds') <= 1
  /\ Len(alarm_history') = Len(alarm_history) + Cardinality(AlarmIds \ AlarmIds')
  /\ SubSeq(alarm_history', 1, Len(alarm_history)) = alarm_history
  /\ archive_alarm_worker_db_error
       => alarms' = alarms /\ alarm_history' = alarm_history

\* C11: the insert of the alarm_history row and the delete of the alarms row
\* are one transaction: an archived alarm instance is in alarm_history and
\* not in alarms, it is archived once, and no step does one of the two
\* statements without the other.
C11_ArchiveAtomicity ==
  /\ [](ArchivedIds \cap AlarmIds = {})
  /\ [](Cardinality(ArchivedIds) = Len(alarm_history))
  /\ [][C11_Step]_vars

\* an alarm was archived while another row stays in alarms: the archived
\* instance is in alarm_history only
C11_Witness ==
  /\ Len(alarm_history) = 1
  /\ alarm_history[1].live_id \notin AlarmIds
  /\ alarms # {}

\* the archiver's lookup for a message without a matching non-cleared row
\* changes no table and takes the archiver back to its queue
C12_NoOpStep ==
  (/\ archive_alarm_worker_select
   /\ ~\E r \in alarms :
         AlarmKey(r) = AlarmKey(alarm[1].rec) /\ r.status # "cleared")
    => /\ alarms' = alarms
       /\ alarm_history' = alarm_history
       /\ alarms_id_seq' = alarms_id_seq
       /\ committed' = committed
       /\ row' = None
       /\ pc'["archive_alarm_worker"] = "get"

\* C12: when the archiver processes an archivable alarm message and alarms
\* has no non-cleared row of its (device, type, code), alarms and
\* alarm_history are unchanged and the archiver goes on to the next message
\* of its queue.
C12_ArchiveNoOp ==
  /\ [][C12_NoOpStep]_vars
  /\ []((pc["archive_alarm_worker"] = "get" /\ archive_alarm_q # <<>>)
          => ENABLED archive_alarm_worker_get)

\* a clear was archived and a later clear of the same key found no row: the
\* archiver is back at its queue and the tables are as the archival left them
C12_Witness ==
  /\ pc["archive_alarm_worker"] = "get"
  /\ alarm # None /\ row = None
  /\ Len(alarm_history) = 1
  /\ alarm_history[1].seq < alarm[1].seq
  /\ AlarmKey(alarm_history[1]) = AlarmKey(alarm[1].rec)
  /\ alarms = {}

\* C14: in every reachable state alarms has at most one row for a (device,
\* alarm type, code).
C14_LiveAlarmUniqueness ==
  \A r1, r2 \in alarms : AlarmKey(r1) = AlarmKey(r2) => r1 = r2

\* a step in which flusher w ends a write without committing
FailedWrite(w) ==
  pc[w] = "write" /\ pc'[w] # "write" /\ committed'[w] = committed[w]

\* a failed write leaves every table and every queue as they were, records
\* its batch as rolled back, and has the flusher collecting a new batch
C13_Step ==
  \A w \in Flushers :
    FailedWrite(w)
      => /\ tableVars' = tableVars
         /\ queueVars' = queueVars
         /\ rolled_back' = rolled_back \cup SeqNos(batch[w])
         /\ batch'[w] = <<>>
         /\ pc'[w] = "collect"

\* the delivery numbers a sequence of entries holds are increasing
Increasing(entries) ==
  \A i, j \in 1..Len(entries) : i < j => entries[i].seq < entries[j].seq

\* C13: when a statement of a batch write fails the transaction is rolled
\* back: storage has none of the batch's rows, device rows of the registrar
\* included, none of its records is queued, collected or committed again,
\* and the flusher goes on to collect the next batch.
C13_AllOrNothing ==
  /\ [](rolled_back \cap Held = {})
  /\ [](\A d \in devices \ ProvisionDevices :
          \E e \in Range(committed["flusher"]) : e.rec.device_id = d.id)
  /\ [](Increasing(q))
  /\ []((pc["flusher"] = "collect" /\ q # <<>>
           /\ Len(batch["flusher"]) < BATCH_SIZE) => ENABLED flusher_get)
  /\ [][C13_Step]_vars

\* a batch with a record of the unknown device 7 was rolled back: the device
\* has no row, and the flusher has since committed a later record
C13_Witness ==
  /\ \E e \in Range(committed["flusher"]) : \E n \in rolled_back : n < e.seq
  /\ \A d \in devices : d.id # 7
  /\ rolled_back # {}
  /\ ess_realtime_data # {}

\* the acknowledgment e names row r: the request id is r's and the serial
\* number is that of r's device
Names(e, r) ==
  /\ e.rec.request_id = r.request_id
  /\ \E d \in devices : d.device_sn = e.rec.device_sn /\ d.id = r.device_id

\* row r2 is row r terminated: r was pending, r2 has a terminal status and a
\* confirmation time, and nothing else differs
Terminated(r, r2) ==
  /\ r.status = "pending"
  /\ r2.status \in valid_statuses
  /\ r2.confirmed_at # None
  /\ [r2 EXCEPT !.status = r.status, !.confirmed_at = r.confirmed_at] = r

\* what one step may do to the command log
C15_Step ==
  /\ {r.id : r \in device_rpc_change_log'} = {r.id : r \in device_rpc_change_log}
  /\ Cardinality(device_rpc_change_log') = Cardinality(device_rpc_change_log)
  /\ \A r \in device_rpc_change_log :
       \E r2 \in device_rpc_change_log' :
         /\ r2.id = r.id
         /\ r2 = r
            \/ /\ Terminated(r, r2)
               /\ rpc_ack_flusher_write
               /\ \E e \in Range(batch["rpc_ack_flusher"]) :
                    Names(e, r) /\ e.rec.status = r2.status
  /\ (rpc_ack_flusher_write
        /\ \A e \in Range(batch["rpc_ack_flusher"]) :
             \A r \in device_rpc_change_log : ~Names(e, r))
       => device_rpc_change_log' = device_rpc_change_log

\* C15: the acknowledgment flusher neither inserts nor deletes command-log
\* rows, moves a row's status only from pending to success, failed, error or
\* timeout, leaves rows in a terminal status as they are, and changes
\* nothing for an acknowledgment of an unknown request id.
C15_CommandLogLifecycle ==
  /\ [][C15_Step]_vars
  /\ [](\A r \in device_rpc_change_log :
          r.status \in valid_statuses \cup {"pending"})

\* acknowledgments of the unknown request r9 and of r1 were committed: row 1
\* is terminal, and the row that was terminal from the start is as it was
C15_Witness ==
  /\ \E e \in Range(committed["rpc_ack_flusher"]) : e.rec.request_id = "r9"
  /\ \E e \in Range(committed["rpc_ack_flusher"]) : e.rec.request_id = "r1"
  /\ \E r \in device_rpc_change_log : r.id = 1 /\ r.status \in valid_statuses
  /\ RpcRow(3, 1, "r2", "success", Some(0)) \in device_rpc_change_log
  /\ Cardinality(device_rpc_change_log) = 3

\* C16: the alarm flusher inserts the missing device row of every device id
\* in its batch before the alarm upsert, so that after a committed alarm
\* batch every device the batch refers to has a device row.
C16_AlarmDevicesExist ==
  /\ [][alarm_flusher_write
          => \A e \in Range(batch["alarm_flusher"]) :
               e.rec.device_id \in DeviceIds(devices')]_vars
  /\ [](\A e \in Range(committed["alarm_flusher"]) :
          e.rec.device_id \in DeviceIds(devices))

\* the queues a step changes
ChangedQueues == {name \in QueueNames : QueueOf(name)' # QueueOf(name)}

\* a step of on_message (the only steps that count a message) leaves the
\* storage and the workers as they were and appends at most one record to
\* at most one queue
C18_RouterStep ==
  nmsg' = nmsg + 1
    => /\ tableVars' = tableVars
       /\ workerVars' = workerVars
       /\ committed' = committed
       /\ Cardinality(ChangedQueues) <= 1
       /\ \A name \in ChangedQueues :
            /\ Len(QueueOf(name)') = Len(QueueOf(name)) + 1
            /\ SubSeq(QueueOf(name)', 1, Len(QueueOf(name))) = QueueOf(name)

\* C18: on_message neither blocks nor touches storage: whatever the queues,
\* the workers and the storage are doing (a worker stalled in its write, a
\* write that fails), it runs to completion, appends at most one record to
\* at most one queue and leaves storage and the other queues unchanged.
C18_RouterIsolation ==
  /\ [](nmsg < MaxMsgs => \A msg \in SystemMsgs : ENABLED on_message(msg))
  /\ [][C18_RouterStep]_vars

\* the telemetry flusher is in its write with a full batch while the
\* telemetry queue is full again and a further message has been handled
C18_Witness ==
  /\ pc["flusher"] = "write"
  /\ Len(batch["flusher"]) = BATCH_SIZE
  /\ q # <<>>
  /\ \A e \in Range(batch["flusher"]) : e.seq < Head(q).seq
  /\ nmsg = MaxMsgs

\* on_message for a malformed message changes no queue and drops nothing
\* from a queue; for a well-formed message whose queue has room it appends
\* the routed record to that queue, whatever was handled before
C19_Step ==
  /\ \A msg \in MalformedMsgs :
       (nmsg' = nmsg + 1 /\ on_message(msg))
         => queueVars' = queueVars /\ dropped' = dropped
  /\ \A msg \in WellFormedMsgs :
       (nmsg' = nmsg + 1 /\ on_message(msg)
          /\ ~put_full(QueueOf(route(msg, now).to)))
         => QueueOf(route(msg, now).to)'
              = Append(QueueOf(route(msg, now).to),
                       Entry(route(msg, now).rec, nmsg'))

\* C19: a message with an unrecognized topic, a non-numeric device id or an
\* undecodable payload is discarded with every queue left as it was, and the
\* router handles the messages that follow as usual.
C19_ParseErrorsNotFatal ==
  /\ [](\A msg \in MalformedMsgs : route(msg, now).to = "none")
  /\ [](nmsg < MaxMsgs
          => \A msg \in MalformedMsgs \cup WellFormedMsgs :
               ENABLED on_message(msg))
  /\ [][C19_Step]_vars

\* two messages were discarded and the third, a telemetry message, is the
\* only record in any queue
C19_Witness ==
  /\ nmsg = 3
  /\ dropped = {}
  /\ Len(q) = 1
  /\ Head(q).seq = 3
  /\ Head(q).rec.soc = 55
  /\ \A name \in QueueNames \ {"q"} : QueueOf(name) = <<>>

\* the channels of a telemetry record: every field but the device id
Channels == FIELDS \ {"device_id"}

\* record rec is the normalization of payload for device did: exactly the
\* fixed fields, each channel the payload's integer when the payload has one
\* that converts, else 100 for soh and 0 for the others
Normalized(rec, did, payload) ==
  /\ DOMAIN rec = FIELDS
  /\ rec.device_id = did
  /\ \A k \in Channels :
       IF k \in DOMAIN payload /\ payload[k].k \in {"int", "numstr"}
       THEN rec[k] = payload[k].v
       ELSE rec[k] = IF k = "soh" THEN 100 ELSE 0

\* the telemetry messages on_message passes to normalize
NormalizedMsgs ==
  {msg \in RealtimeMsgs : msg.payload # None /\ IsNumeric(msg.topic[2])}

\* the record on_message queues for a telemetry message is the
\* normalization of its payload
C20_Step ==
  \A msg \in NormalizedMsgs :
    (nmsg' = nmsg + 1 /\ on_message(msg) /\ ~put_full(q))
      => /\ Len(q') = Len(q) + 1
         /\ Normalized(q'[Len(q')].rec, ParseInt(msg.topic[2]), msg.payload[1])

\* C20: normalize returns a record with exactly the fixed field set, each
\* channel being the payload's integer value when the payload has a
\* convertible one and otherwise 0, or 100 for soh; fields of the payload
\* outside the set are ignored. {soc: 55, pv: 1200, load: 900} for device 7
\* gives soc 55, pv 1200, load 900, soh 100 and 0 for every other channel.
C20_TelemetryNormalization ==
  /\ [](Cardinality(FIELDS) = 26)
  /\ [](normalize(<<"7">>,
                  [soc |-> IntV(55), pv |-> IntV(1200), load |-> IntV(900)])
          = [k \in FIELDS |->
               CASE k = "device_id" -> 7
                 [] k = "soc" -> 55
                 [] k = "pv" -> 1200
                 [] k = "load" -> 900
                 [] k = "soh" -> 100
                 [] OTHER -> 0])
  /\ [][C20_Step]_vars

\* the flusher committed the record of {soc: 55, pv: 1200, load: 900} and
\* the record of a payload with an unconvertible soc, a soh of "90", a null
\* pv and a field outside the set
C20_Witness ==
  /\ \E e \in Range(committed["flusher"]) :
       e.rec.device_id = 7 /\ e.rec.soc = 55 /\ e.rec.soh = 100
         /\ e.rec.pv = 1200 /\ e.rec.grid = 0
  /\ \E e \in Range(committed["flusher"]) :
       e.rec.device_id = 7 /\ e.rec.soc = 0 /\ e.rec.soh = 90
         /\ e.rec.pv = 0 /\ "firmware" \notin DOMAIN e.rec

\* what one step may do to the devices table: every row stays as it is, and
\* a new row has an id that had no row and comes from the batch of a
\* flusher that is writing
C26_Step ==
  /\ devices \subseteq devices'
  /\ \A d \in devices' \ devices :
       /\ d.id \notin DeviceIds(devices)
       /\ \E w \in {"flusher", "history_flusher"} :
            /\ pc[w] = "write"
            /\ \E e \in Range(batch[w]) : e.rec.device_id = d.id

\* C26: ensure_devices_exist inserts rows only for device ids that have no
\* row; it never changes the serial number or another field of a device
\* row and never deletes one, and when two flushers register the same id
\* there is one row for it.
C26_RegistrarFrame ==
  /\ [](\A d1, d2 \in devices : d1.id = d2.id => d1 = d2)
  /\ [](\A b \in {batch["flusher"], batch["history_flusher"]} :
          /\ devices \subseteq ensure_devices_exist(devices, b, now)
          /\ DeviceIds(ensure_devices_exist(devices, b, now))
               = DeviceIds(devices) \cup {e.rec.device_id : e \in Range(b)})
  /\ [][C26_Step]_vars

\* both flushers committed records of device 7, the telemetry one a second
\* after the history one registered the device: the row is the one of the
\* first registration, and the registered device 12 has kept its serial
C26_Witness ==
  /\ \E e \in Range(committed["flusher"]) : e.rec.device_id = 7
  /\ \E e \in Range(committed["history_flusher"]) : e.rec.device_id = 7
  /\ \E r \in ess_realtime_data : r.vals.device_id = 7 /\ r.updated_at = 1
  /\ \E d \in devices : d.id = 7 /\ d.created_at = 0
  /\ \E e \in Range(committed["flusher"]) : e.rec.device_id = 12
  /\ ProvisionDevices \subseteq devices

\* the queue flusher w collects from
FlusherQueue(w) ==
  CASE w = "flusher" -> q
    [] w = "history_flusher" -> history_q
    [] w = "alarm_flusher" -> alarm_q
    [] w = "para_flusher" -> para_q
    [] w = "rpc_ack_flusher" -> rpc_ack_q

\* the delivery numbers of the records flusher w has collected so far: the
\* ones it committed and the ones of its batch (those of rolled back
\* batches are in rolled_back)
Collected(w) == SeqNos(committed[w]) \cup SeqNos(batch[w])

\* a step that changes the queue of flusher w either appends the record of
\* the message being handled, or moves the head of the queue, the oldest
\* record in it, to the end of w's batch
C27_Step ==
  \A w \in Flushers :
    FlusherQueue(w)' # FlusherQueue(w)
      => \/ /\ nmsg' = nmsg + 1
            /\ Len(FlusherQueue(w)') = Len(FlusherQueue(w)) + 1
            /\ SubSeq(FlusherQueue(w)', 1, Len(FlusherQueue(w))) = FlusherQueue(w)
            /\ FlusherQueue(w)'[Len(FlusherQueue(w)')].seq = nmsg'
            /\ batch' = batch
         \/ /\ FlusherQueue(w)' = Tail(FlusherQueue(w))
            /\ batch'[w] = Append(batch[w], Head(FlusherQueue(w)))
            /\ \A n \in Collected(w) \cup rolled_back : n # Head(FlusherQueue(w)).seq

\* C27: the records a flusher collects, batch after batch, come in the
\* order in which on_message enqueued them: no record is collected twice
\* and none is passed over.
C27_QueueFifo ==
  /\ [](\A w \in Flushers :
          /\ Increasing(FlusherQueue(w))
          /\ Increasing(committed[w] \o batch[w])
          /\ \A n \in Collected(w) :
               \A m \in SeqNos(FlusherQueue(w)) : n < m)
  /\ [][C27_Step]_vars

\* the telemetry flusher committed the first record in one batch and holds
\* the second in the next while the third is still queued
C27_Witness ==
  /\ SeqNos(committed["flusher"]) = {1}
  /\ SeqNos(batch["flusher"]) = {2}
  /\ SeqNos(q) = {3}

\* the records whose write a step attempts: those it commits or rolls back
Written(w) ==
  (SeqNos(committed'[w]) \ SeqNos(committed[w])) \cup (rolled_back' \ rolled_back)

\* a flusher's step that ends a collection with nothing collected writes
\* nothing and goes on collecting; a step that writes, writes the whole
\* batch, of 1 to BATCH_SIZE records
C29_Step ==
  /\ (batch["flusher"] = <<>> /\ flusher_collect_end)
       => /\ tableVars' = tableVars
          /\ committed' = committed
          /\ rolled_back' = rolled_back
          /\ pc'["flusher"] = "collect"
  /\ \A w \in Flushers : pc'[w] = "write" => batch'[w] # <<>>
  /\ \A w \in Flushers :
       (pc[w] = "write" /\ pc'[w] # "write")
         => /\ Written(w) = SeqNos(batch[w])
            /\ Cardinality(Written(w)) \in 1..BATCH_SIZE

\* C29: a batch a flusher writes has at least 1 and at most BATCH_SIZE
\* records; the collection stops taking records once BATCH_SIZE are
\* collected and ends then or when the deadline passes; a collection
\* that ends with nothing collected is followed by no write.
C29_BatchTrigger ==
  /\ [](\A w \in Flushers : Len(batch[w]) <= BATCH_SIZE)
  /\ [](\A w \in Flushers :
          pc[w] = "write" => Len(batch[w]) \in 1..BATCH_SIZE)
  /\ []((pc["flusher"] = "collect" /\ Len(batch["flusher"]) = BATCH_SIZE)
          => ~ENABLED flusher_get /\ ENABLED flusher_collect_end)
  /\ [](pc["flusher"] = "collect" => ENABLED flusher_collect_end)
  /\ [][C29_Step]_vars

\* a batch of one record was written when its deadline passed, and the next
\* batch is being written with BATCH_SIZE records
C29_Witness ==
  /\ Len(committed["flusher"]) = 1
  /\ pc["flusher"] = "write"
  /\ Len(batch["flusher"]) = BATCH_SIZE

\* a successful connect event leaves the client subscribed to the five
\* filters; a refused one changes no subscription
C28_Step ==
  /\ (~connected /\ connected') => subscriptions' = TOPICS /\ sessions' = sessions + 1
  /\ \A rc \in {5} : on_connect(rc) => subscriptions' = subscriptions /\ ~connected'

\* C28: after every successful connect event, the first or a later one, the
\* client is subscribed to the realtime, history, alarm, para and rpc_ack
\* filters; a connect event with a non-zero result code subscribes to
\* nothing.
C28_SubscriptionsRestored ==
  /\ [](Cardinality(TOPICS) = 5)
  /\ [](connected => subscriptions = TOPICS)
  /\ [](~connected => subscriptions = {})
  /\ [](connected => \A msg \in WellFormedMsgs :
                       \E f \in subscriptions : Matches(f, msg.topic))
  /\ [][C28_Step]_vars

\* the client is in its second session and a message was delivered in it
C28_Witness ==
  /\ sessions = 2
  /\ connected
  /\ subscriptions = TOPICS
  /\ nmsg = 1
  /\ \E name \in QueueNames : QueueOf(name) # <<>>

\* the flusher starts its backoff only on a failed connect or a write on a
\* lost connection, with the tables as they were and a sleep of RETRY_SLEEP;
\* it leaves the backoff only when the sleep is over, for a new connect;
\* and it collects again only through a connect that succeeded
C21_Step ==
  /\ (pc["flusher"] # "sleep" /\ pc'["flusher"] = "sleep")
       => /\ pc["flusher"] \in {"connect", "write"}
          /\ ~pg_up
          /\ wake'["flusher"] = now + RETRY_SLEEP
          /\ batch'["flusher"] = <<>>
          /\ tableVars' = tableVars
          /\ committed' = committed
  /\ (pc["flusher"] = "sleep" /\ pc'["flusher"] # "sleep")
       => /\ now >= wake["flusher"]
          /\ pc'["flusher"] = "connect"
  /\ (pc["flusher"] = "connect" /\ pc'["flusher"] = "collect") => pg_up
  /\ (pc["flusher"] \notin {"collect", "write"} /\ pc'["flusher"] = "collect")
       => pc["flusher"] = "connect"

\* C21: a flusher whose connection fails, at the connect or during a write,
\* closes it, sleeps RETRY_SLEEP = 5 and connects anew before it collects
\* again; it does not end while the stop signal is unset; and once
\* PostgreSQL stays reachable it writes batches again.
C21_FlusherReconnect ==
  /\ [](RETRY_SLEEP = 5)
  /\ [](~stop_event => pc["flusher"] \in {"connect", "sleep", "collect", "write"})
  /\ [](pc["flusher"] = "sleep" => wake["flusher"] <= now + RETRY_SLEEP)
  /\ [][C21_Step]_vars
  /\ [](pc["flusher"] = "sleep" => <>(pc["flusher"] = "connect"))
  /\ (<>[]pg_up)
       => []((pc["flusher"] \in {"sleep", "connect"} /\ q # <<>>)
               => <>(pc["flusher"] = "write"))

\* the connection was lost during the write of the first record; after the
\* backoff and a new connect the flusher has committed a later record
C21_Witness ==
  /\ 1 \in rolled_back
  /\ wake["flusher"] > 0
  /\ now >= wake["flusher"]
  /\ \E e \in Range(committed["flusher"]) : e.seq > 1
  /\ pc["flusher"] = "collect"

\* the delivery numbers of the records whose write the telemetry flusher
\* has attempted: committed, or rolled back and logged
Attempted == SeqNos(committed["flusher"]) \cup rolled_back

\* C30: with the stop signal unset and PostgreSQL reachable, every record
\* accepted on the telemetry queue is eventually taken by the flusher and
\* is part of a batch whose write is attempted; a batch with records in it
\* is not held beyond its deadline: the collection can always end, and its
\* end is followed by the write.
C30_BoundedLatency ==
  /\ []((pc["flusher"] = "collect" /\ batch["flusher"] # <<>>)
          => ENABLED flusher_collect_end)
  /\ [][(flusher_collect_end /\ batch["flusher"] # <<>>)
          => pc'["flusher"] = "write"]_vars
  /\ (<>[]pg_up)
       => /\ [](batch["flusher"] # <<>> => <>(pc["flusher"] = "write"))
          /\ \A n \in 1..(MaxMsgs + 1) :
               [](n \in SeqNos(q) => <>(n \in SeqNos(batch["flusher"])))
          /\ \A n \in 1..(MaxMsgs + 1) :
               [](n \in SeqNos(q) => <>(n \in Attempted))

\* a record queued while PostgreSQL was unreachable and the flusher in its
\* backoff was committed after the reconnection
C30_Witness ==
  /\ wake["flusher"] > 0
  /\ rolled_back = {}
  /\ SeqNos(committed["flusher"]) = {1, 2, 3}
  /\ q = <<>>
  /\ pg_up

\* C22: when a worker thread, one of the five flushers or the archiver, has
\* ended while the stop signal is unset, main's supervision loop eventually
\* sets the stop signal.
C22_DeadWorkerSupervision ==
  \A w \in Workers :
    []((pc[w] = "closed" /\ ~stop_event) => <>stop_event)

\* C23: the stop signal, once set, stays set, and every flusher and the
\* archiver then eventually leave their loops and end.
C23_ShutdownTerminates ==
  /\ [][stop_event => stop_event']_vars
  /\ \A w \in Workers : [](stop_event => <>(pc[w] = "closed"))

\* C24: a flusher has not ended, at the shutdown or when main returns,
\* before the write of the records it had taken from its queue was
\* committed or rolled back.
C24_InFlightBatchesFinish ==
  \A w \in Flushers :
    pc[w] \in {"closed", "killed"}
      => SeqNos(batch[w]) \subseteq SeqNos(committed[w]) \cup rolled_back

\* C25: every record accepted on the telemetry queue is eventually
\* committed or part of a write failure that is logged, also when the stop
\* signal is set while it is queued.
C25_NoSilentLoss ==
  \A n \in 1..(MaxMsgs + 1) :
    [](n \in SeqNos(q) => <>(n \in Attempted))

\* C31: the alarm archiver never stops while the stop signal is unset: after
\* a failure of its storage connection it backs off, reconnects and goes on
\* consuming the archive queue.
C31_ArchiverReconnects ==
  pc["archive_alarm_worker"] = "closed" => stop_event

\* C32: once the stop signal is set, no flusher that is inside its
\* collection loop takes a further record from its queue.
C32_StopEndsCollection ==
  [][stop_event => \A w \in Flushers : Len(batch'[w]) <= Len(batch[w])]_vars

\* the orders in which the records of the batch b can be written
Orders(b) ==
  LET n == Len(b)
      perms == {f \in [1..n -> 1..n] : \A i, j \in 1..n : f[i] = f[j] => i = j}
  IN {[i \in 1..n |-> b[f[i]]] : f \in perms}

\* the natural key of a record of flusher w's stream
NaturalKey(w, rec) ==
  CASE w = "flusher" -> <<rec.device_id>>
    [] w = "history_flusher" -> <<rec.device_id, rec.ts>>
    [] w = "alarm_flusher" -> <<rec.device_id, rec.alarm_type, rec.code>>
    [] w = "para_flusher" -> <<rec.device_id>>
    [] w = "rpc_ack_flusher" -> <<rec.request_id, rec.device_sn>>

DistinctKeys(w, b) ==
  \A i, j \in 1..Len(b) :
    i # j => NaturalKey(w, b[i].rec) # NaturalKey(w, b[j].rec)

\* the tables without the serial ids of the alarms rows
Content(S) ==
  [S EXCEPT !.alarms = {[x \in DOMAIN r \ {"id"} |-> r[x]] : r \in @}]

\* flusher w commits its batch in this step
Commits(w) == pc[w] = "write" /\ committed'[w] = committed[w] \o batch[w]

\* C33 as stated: the tables after a batch commits are those that every
\* permutation of the batch's records gives, also when the batch holds
\* several records of one natural key.
C33_AnyBatchUnordered ==
  [][\A w \in Flushers :
       Commits(w) =>
         \A p \in Orders(batch[w]) :
           Content(Transaction(Store, w, p, now)) = Content(Store')]_vars

C33_Step ==
  \A w \in Flushers :
    Commits(w) =>
      \A p \in Orders(batch[w]) :
        /\ DistinctKeys(w, batch[w]) =>
             Content(Transaction(Store, w, p, now)) = Content(Store')
        /\ p = batch[w] => Transaction(Store, w, p, now) = Store'

\* C33: for every batch whose records have pairwise different natural keys,
\* the tables after the batch commits are the same for every permutation of
\* its records, the serial ids of the inserted alarms rows aside; the
\* records of one key are written in the order of the batch.
C33_BatchOrderIndependence == [][C33_Step]_vars

\* a flusher has committed a batch of two records with different natural
\* keys, the alarm flusher among the flushers that can
C33_WitnessOf(w) ==
  /\ Len(committed[w]) = 2
  /\ NaturalKey(w, committed[w][1].rec) # NaturalKey(w, committed[w][2].rec)
  /\ pc[w] = "collect" /\ batch[w] = <<>>
  /\ rolled_back = {}

C33_Witness == C33_WitnessOf("alarm_flusher")

\* the tables without what now() writes (updated_at of a telemetry row,
\* confirmed_at of a command-log row) and without the serial of alarms.id
Data(S) ==
  [devices |-> S.devices,
   ess_realtime_data |-> {r.vals : r \in S.ess_realtime_data},
   history_energy |-> S.history_energy,
   alarms |-> S.alarms,
   device_para |-> S.device_para,
   device_rpc_change_log |->
     {[x \in DOMAIN r \ {"confirmed_at"} |-> r[x]] : r \in S.device_rpc_change_log}]

\* the times of a second write of a batch written now
Later == {now, now + 1}

\* C34 as stated: for every flusher, writing the records of a committed
\* batch a second time leaves the tables as the first write left them,
\* write timestamps aside.
C34_AnyRedeliverySafe ==
  [][\A w \in Flushers :
       Commits(w) =>
         \A t \in Later : Data(Transaction(Store', w, batch[w], t)) = Data(Store')]_vars

\* the alarms rows without their repeat counters
Uncounted(rows) == {[x \in DOMAIN r \ {"repeat_count"} |-> r[x]] : r \in rows}

\* how many records of the batch b the alarms row r is the conflict row of
Hits(b, r) ==
  Cardinality({i \in 1..Len(b) :
                 /\ b[i].rec.device_id = r.device_id
                 /\ b[i].rec.alarm_type = r.alarm_type
                 /\ b[i].rec.code = r.code
                 /\ b[i].rec.status = r.status})

C34_Step ==
  \A w \in Flushers :
    Commits(w) =>
      \A t \in Later :
        LET once == Data(Store')
            twice == Data(Transaction(Store', w, batch[w], t))
        IN IF w # "alarm_flusher"
           THEN twice = once
           ELSE /\ [twice EXCEPT !.alarms = Uncounted(@)]
                     = [once EXCEPT !.alarms = Uncounted(@)]
                /\ \A r \in twice.alarms :
                     \E o \in once.alarms :
                       /\ o.id = r.id
                       /\ r.repeat_count = o.repeat_count + Hits(batch[w], r)

\* C34: for the telemetry, history, device-parameters and acknowledgment
\* flushers, writing the records of a committed batch a second time leaves
\* the tables as the first write left them, write timestamps aside; a
\* second write of alarm records changes nothing but repeat_count, which
\* counts it as one more trigger.
C34_RedeliverySafe == [][C34_Step]_vars

\* the history flusher has written a record onto the row an earlier batch
\* had stored for the same device and bucket
C34_Witness ==
  /\ Len(committed["history_flusher"]) = 2
  /\ committed["history_flusher"][1].rec = committed["history_flusher"][2].rec
  /\ committed["history_flusher"][1].seq \notin {r.seq : r \in history_energy}
  /\ Cardinality(history_energy) = 1

\* what on_message does with an acknowledgment: without a response id
\* nothing is enqueued; otherwise the record carries the serial number of
\* the topic, the response id as request id, and the status, or "error" for
\* a status outside the four terminal ones
C35_RouterStep ==
  \A msg \in RpcAckMsgs :
    on_message(msg) =>
      LET p == msg.payload[1]
      IN IF p.response_id = None
         THEN queueVars' = queueVars /\ dropped' = dropped
         ELSE /\ Len(rpc_ack_q) < QUEUE_MAXSIZE
                   => /\ Len(rpc_ack_q') = Len(rpc_ack_q) + 1
                      /\ LET rec == rpc_ack_q'[Len(rpc_ack_q')].rec
                         IN /\ rec.device_sn = msg.topic[2]
                            /\ rec.request_id = p.response_id[1]
                            /\ rec.status \in valid_statuses
                            /\ p.status # None /\ p.status[1] \in valid_statuses
                                 => rec.status = p.status[1]
                            /\ p.status = None \/ p.status[1] \notin valid_statuses
                                 => rec.status = "error"

\* what a committed acknowledgment batch does to the command log: a row
\* changes only if it was pending and an acknowledgment of the batch has
\* its request id and the serial number of its device
C35_WriteStep ==
  Commits("rpc_ack_flusher") =>
    \A r \in device_rpc_change_log :
      LET acks == {e \in Range(batch["rpc_ack_flusher"]) : Names(e, r)}
      IN /\ r \notin device_rpc_change_log'
              => /\ r.status = "pending"
                 /\ \E e \in acks :
                      [r EXCEPT !.status = e.rec.status,
                                !.confirmed_at = Some(now)]
                        \in device_rpc_change_log'
         /\ r.status = "pending" /\ acks # {} => r \notin device_rpc_change_log'
         /\ acks = {} => r \in device_rpc_change_log'

\* C35: an acknowledgment terminates only the pending command-log row that
\* has its response id as request id and belongs to the device of its
\* topic; the same request id acknowledged by another device leaves the row
\* pending; an acknowledgment without a response id is not enqueued; a
\* status outside success, failed, error and timeout is recorded as error.
C35_AckCorrelation == [][C35_RouterStep /\ C35_WriteStep]_vars

\* device 2 has acknowledged r1 and its row is terminated, while the row of
\* device 1 for the same request id is still pending
C35_Witness ==
  /\ \E e \in Range(committed["rpc_ack_flusher"]) :
       e.rec.device_sn = Sn2 /\ e.rec.request_id = "r1"
  /\ RpcRow(1, 1, "r1", "pending", None) \in device_rpc_change_log
  /\ \E r \in device_rpc_change_log :
       r.id = 2 /\ r.status = "timeout" /\ r.confirmed_at # None

\* the key of the alarm of TriggerMsg and ClearMsg
LifecycleKey == <<7, "system", 3>>

\* a trigger and then the clear of the alarm were accepted on their queues
TriggeredThenCleared ==
  /\ (archive_alarm_q # <<>> \/ alarm # None)
  /\ dropped = {}
  /\ nmsg >= 2

\* the alarm is archived: no alarms row has its key, an alarm_history row has
ArchivedAlarm ==
  /\ \A r \in alarms : AlarmKey(r) # LifecycleKey
  /\ \E i \in 1..Len(alarm_history) : AlarmKey(alarm_history[i]) = LifecycleKey

\* C36: when an active message and then a cleared message of one
\* non-critical alarm are accepted on their queues and every write
\* succeeds, the alarm is eventually archived: no alarms row and an
\* alarm_history row for its key, under every interleaving of the alarm
\* flusher and the archiver.
C36_TriggerThenClearArchived == [](TriggeredThenCleared => <>ArchivedAlarm)

\* C37: every alarm_history row whose level is critical has a confirmed_at.
C37_ArchivedCriticalConfirmed ==
  \A i \in 1..Len(alarm_history) :
    alarm_history[i].level = "critical" => alarm_history[i].confirmed_at # None

\* C38: the archiver never moves a live row whose stored level is critical
\* and whose confirmed_at is null to alarm_history for a cleared message
\* that carries no confirmation, whatever the level of that message.
C38_GatingFollowsStoredAlarm ==
  [][(/\ archive_alarm_worker_archive
      /\ row[1].level = "critical"
      /\ row[1].confirmed_at = None)
     => alarm[1].rec.confirmed_at # None]_vars

\* C39: with two ingestor processes on one store, a live alarms row is
\* archived at most once: no two alarm_history rows come from the same
\* alarms row, under every interleaving of the two archivers.
C39_NoDuplicateArchival ==
  \A i, j \in 1..Len(alarm_history) :
    alarm_history[i].live_id = alarm_history[j].live_id => i = j

\* no step changes first_triggered_at of a row that stays in alarms, and a
\* row that alarm_flusher inserts has the first_triggered_at of its record
C40_StableStep ==
  /\ \A r \in alarms : \A r2 \in alarms' :
       r2.id = r.id => r2.first_triggered_at = r.first_triggered_at
  /\ \A r2 \in alarms' :
       r2.id \notin AlarmIds
         => \E e \in Range(batch["alarm_flusher"]) :
              /\ AlarmKey(e.rec) = AlarmKey(r2)
              /\ r2.first_triggered_at = e.rec.first_triggered_at

\* the row the archiver appends to alarm_history has first_triggered_at and
\* repeat_count of the alarms row that the same step deletes
C40_ArchiveStep ==
  archive_alarm_worker_archive =>
    LET h == alarm_history'[Len(alarm_history')]
    IN \A r \in alarms \ alarms' :
         /\ h.live_id = r.id
         /\ h.first_triggered_at = r.first_triggered_at
         /\ h.repeat_count = r.repeat_count

\* C40: first_triggered_at of a live alarm row is set when the row is
\* created and no later trigger changes it; first_triggered_at <=
\* last_triggered_at in every reachable state; the archived row carries the
\* first_triggered_at and the accumulated repeat_count of the live row.
C40_FirstOccurrenceStable ==
  /\ [](\A r \in alarms : r.first_triggered_at <= r.last_triggered_at)
  /\ [][C40_StableStep /\ C40_ArchiveStep]_vars

====
